---- MODULE Spec2Model ----
(***************************************************************************)
(* Fixup value adjustment and fixup application of the RISC-V and SystemZ  *)
(* assembler backends.                                                     *)
(*                                                                         *)
(* A uint64_t is the set of its set bit positions (a subset of 0..63), so  *)
(* that shifts, masks and ORs keep their full 64-bit width.  A 32-bit      *)
(* `unsigned` byte offset is a pair of 16-bit limbs [hi, lo], so that      *)
(* Offset + I wraps at 2^32 as it does in the code.  A byte of the         *)
(* fragment is the set of its set bit positions (a subset of 0..7).        *)
(***************************************************************************)
EXTENDS Integers, Sequences, FiniteSets, TLC

VARIABLES pc, Backend, Fixup, Data, Before, Adjusted, Errors, KsError,
          Aborted, Stray,
          Initial, Contrib, NumApplied,
          Count, OW, Ret, Call, Form,
          Seqs, Entries, Emitted, Arg, Added, LaidOut, InOrder,
          Threads, InterruptFunction, FilesToRemove, CallBacksToRun,
          NumRegisteredSignals, RegisteredSignalInfo, Handlers,
          CriticalSection, RegisteredUnhandledExceptionFilter,
          CleanupExecuted

\* What one call of applyFixup reads and writes.
applyVars == <<Backend, Fixup, Data, Before, Adjusted, Errors, KsError,
               Aborted, Stray>>

\* A run of several fixups over one fragment: the fragment as encoded, the
\* bits the in-bounds fixups applied so far carry, and their number.
fixupsVars == <<Initial, Contrib, NumApplied>>

\* The backend hooks other than applyFixup: the byte count and the object
\* writer of writeNopData, the hook called and what it returned, and the
\* form of the fragment under layout.
hookVars == <<Count, OW, Ret, Call, Form>>

\* A SequenceToOffsetTable: its two members, what the last emit() printed,
\* the argument of the last add() or get(), and the calls made so far: the
\* sequences handed to add(), whether layout() has been called, and whether
\* the calls came in the order add()* ; layout() ; (size() | get() | emit())*.
tableVars == <<Seqs, Entries, Emitted, Arg, Added, LaidOut, InOrder>>

\* The signal handling of the support library: where each thread is, the
\* globals both implementations have, the registered handlers of the Unix
\* one, and the critical section and flags of the Windows one.
osVars == <<Threads, InterruptFunction, FilesToRemove, CallBacksToRun,
            NumRegisteredSignals, RegisteredSignalInfo, Handlers,
            CriticalSection, RegisteredUnhandledExceptionFilter,
            CleanupExecuted>>

vars == <<pc, applyVars, fixupsVars, hookVars, tableVars, osVars>>

(***************************************************************************)
(* Bounds of the model.                                                    *)
(***************************************************************************)
\* Size in bytes of the fragment buffer handed to applyFixup.
BufLen == 8

\* Resolved values handed to applyFixup set (or, for the negative ones,
\* clear) at most this many of the bit positions in ValuePositions.
MaxApplyBits == 1

\* The same for the values handed directly to adjustFixupValue.
MaxAdjustBits == 3

\* How many offsets just below 2^32 a fixup may carry.
MaxWrapOffsets == 2

(***************************************************************************)
(* 64-bit words as bit sets.                                               *)
(***************************************************************************)
Bits64 == 0 .. 63

\* v << n on uint64_t
Shl(v, n) == {b \in Bits64 : (b - n) \in v}

\* v >> n on uint64_t (logical)
Shr(v, n) == {b \in Bits64 : (b + n) \in v}

\* v & m, v | w
And(v, m) == v \cap m

Or(v, w) == v \cup w

\* The constant (1 << n) - 1: 0xfff is Mask(12).
Mask(n) == 0 .. (n - 1)

\* Conversion of a uint64_t to `unsigned` keeps the low 32 bits.
ToUnsigned(v) == v \cap (0 .. 31)

\* Ripple-carry addition of bit position i and upwards, modulo 2^64.
RECURSIVE AddFrom(_, _, _, _)
AddFrom(a, b, i, carry) ==
    IF i > 63 THEN {}
    ELSE LET n == (IF i \in a THEN 1 ELSE 0) + (IF i \in b THEN 1 ELSE 0)
                  + carry
         IN  (IF n % 2 = 1 THEN {i} ELSE {}) \cup AddFrom(a, b, i + 1, n \div 2)

\* a + b on uint64_t
Add64(a, b) == AddFrom(a, b, 0, 0)

\* ~v on uint64_t
Not64(v) == Bits64 \ v

\* -v on uint64_t (two's complement)
Neg64(v) == Add64(Not64(v), {0})

\* The natural number a bit set of positions below 31 stands for.
RECURSIVE ToNat(_)
ToNat(v) ==
    IF v = {} THEN 0
    ELSE LET b == CHOOSE x \in v : \A y \in v : y <= x
         IN  2 ^ b + ToNat(v \ {b})

\* The bit set of a natural number below 2^31.
FromNat(n) == {b \in 0 .. 30 : (n \div (2 ^ b)) % 2 = 1}

\* isInt<N>(x): x, read as int64_t, lies in [-2^(N-1), 2^(N-1)), which is
\* to say that bits N-1 .. 63 are all equal to the sign bit.
isInt(N, x) == \/ \A b \in (N - 1) .. 63 : b \in x
               \/ \A b \in (N - 1) .. 63 : b \notin x

(***************************************************************************)
(* 32-bit unsigned offsets as two 16-bit limbs.                            *)
(***************************************************************************)
U32(h, l) == [hi |-> h, lo |-> l]

\* a + n on `unsigned`, wrapping at 2^32 (n a small natural)
U32Add(a, n) ==
    LET s == a.lo + n
    IN  U32((a.hi + (s \div 65536)) % 65536, s % 65536)

\* a > n and a <= n, a converted to size_t and compared with Data.size()
U32Gt(a, n) == a.hi > 0 \/ a.lo > n

\* Whether index a lies inside a buffer of n bytes.
InBuf(a, n) == a.hi = 0 /\ a.lo < n

(***************************************************************************)
(* Fixup kinds.                                                            *)
(***************************************************************************)
GenericKinds == {"FK_Data_1", "FK_Data_2", "FK_Data_4", "FK_Data_8"}

RISCVTargetKinds ==
    {"fixup_riscv_hi20", "fixup_riscv_lo12_i", "fixup_riscv_lo12_s",
     "fixup_riscv_pcrel_hi20", "fixup_riscv_jal", "fixup_riscv_branch",
     "fixup_riscv_rvc_jump", "fixup_riscv_rvc_branch"}

RISCVKinds == GenericKinds \cup RISCVTargetKinds

SystemZTargetKinds == {"FK_390_PC16DBL", "FK_390_PC32DBL", "FK_390_TLS_CALL"}

SystemZKinds == GenericKinds \cup SystemZTargetKinds

Info(off, bits, pcrel) ==
    [TargetOffset |-> off, TargetSize |-> bits, IsPCRel |-> pcrel]

\* MCAsmBackend::getFixupKindInfo for the generic data kinds.
BuiltinKindInfo(Kind) ==
    CASE Kind = "FK_Data_1" -> Info(0, 8, FALSE)
      [] Kind = "FK_Data_2" -> Info(0, 16, FALSE)
      [] Kind = "FK_Data_4" -> Info(0, 32, FALSE)
      [] Kind = "FK_Data_8" -> Info(0, 64, FALSE)

RISCVGetFixupKindInfo(Kind) ==
    CASE Kind \in GenericKinds -> BuiltinKindInfo(Kind)
      [] Kind = "fixup_riscv_hi20" -> Info(12, 20, FALSE)
      [] Kind = "fixup_riscv_lo12_i" -> Info(20, 12, FALSE)
      [] Kind = "fixup_riscv_lo12_s" -> Info(0, 32, FALSE)
      [] Kind = "fixup_riscv_pcrel_hi20" -> Info(12, 20, TRUE)
      [] Kind = "fixup_riscv_jal" -> Info(12, 20, TRUE)
      [] Kind = "fixup_riscv_branch" -> Info(0, 32, TRUE)
      [] Kind = "fixup_riscv_rvc_jump" -> Info(2, 11, TRUE)
      [] Kind = "fixup_riscv_rvc_branch" -> Info(0, 16, TRUE)

SystemZGetFixupKindInfo(Kind) ==
    CASE Kind \in GenericKinds -> BuiltinKindInfo(Kind)
      [] Kind = "FK_390_PC16DBL" -> Info(0, 16, TRUE)
      [] Kind = "FK_390_PC32DBL" -> Info(0, 32, TRUE)
      [] Kind = "FK_390_TLS_CALL" -> Info(0, 0, FALSE)

(***************************************************************************)
(* RISC-V adjustFixupValue, one operator per case of its switch.           *)
(***************************************************************************)
\* adjustLo12I keeping 11 bits only: Value & 0x7ff.
adjustLo12IShortMask(Value) == And(Value, Mask(11))

adjustLo12I(Value) == And(Value, Mask(12))

\* adjustLo12S with the upper field masked to six bits instead of seven.
adjustLo12SShortMask(Value) ==
    Or(Shl(And(Shr(Value, 5), Mask(6)), 25), Shl(And(Value, Mask(5)), 7))

\* adjustLo12S without the mask of the lower field.
adjustLo12SUnmasked(Value) ==
    Or(Shl(And(Shr(Value, 5), Mask(7)), 25), Shl(Value, 7))

adjustLo12S(Value) ==
    Or(Shl(And(Shr(Value, 5), Mask(7)), 25), Shl(And(Value, Mask(5)), 7))

\* adjustHi20 without the rounding term 0x800.
adjustHi20NoRounding(Value) == And(Shr(Value, 12), Mask(20))

adjustHi20(Value) == And(Shr(Add64(Value, {11}), 12), Mask(20))

\* adjustJal with Hi8 and Mid1 taken one bit too low.
adjustJalShifted(Value) ==
    LET Sbit == ToUnsigned(And(Shr(Value, 20), Mask(1)))
        Hi8  == ToUnsigned(And(Shr(Value, 11), Mask(8)))
        Mid1 == ToUnsigned(And(Shr(Value, 10), Mask(1)))
        Lo10 == ToUnsigned(And(Shr(Value, 1), Mask(10)))
    IN  ToUnsigned(Or(Or(Shl(Sbit, 19), Shl(Lo10, 9)), Or(Shl(Mid1, 8), Hi8)))

adjustJal(Value) ==
    LET Sbit == ToUnsigned(And(Shr(Value, 20), Mask(1)))
        Hi8  == ToUnsigned(And(Shr(Value, 12), Mask(8)))
        Mid1 == ToUnsigned(And(Shr(Value, 11), Mask(1)))
        Lo10 == ToUnsigned(And(Shr(Value, 1), Mask(10)))
    IN  ToUnsigned(Or(Or(Shl(Sbit, 19), Shl(Lo10, 9)), Or(Shl(Mid1, 8), Hi8)))

\* adjustBranch with Lo4 and Hi1 placed in each other's position.
adjustBranchSwapped(Value) ==
    LET Sbit == ToUnsigned(And(Shr(Value, 12), Mask(1)))
        Hi1  == ToUnsigned(And(Shr(Value, 11), Mask(1)))
        Mid6 == ToUnsigned(And(Shr(Value, 5), Mask(6)))
        Lo4  == ToUnsigned(And(Shr(Value, 1), Mask(4)))
    IN  ToUnsigned(Or(Or(Shl(Sbit, 31), Shl(Mid6, 25)),
                      Or(Shl(Lo4, 7), Shl(Hi1, 11))))

adjustBranch(Value) ==
    LET Sbit == ToUnsigned(And(Shr(Value, 12), Mask(1)))
        Hi1  == ToUnsigned(And(Shr(Value, 11), Mask(1)))
        Mid6 == ToUnsigned(And(Shr(Value, 5), Mask(6)))
        Lo4  == ToUnsigned(And(Shr(Value, 1), Mask(4)))
    IN  ToUnsigned(Or(Or(Shl(Sbit, 31), Shl(Mid6, 25)),
                      Or(Shl(Lo4, 8), Shl(Hi1, 7))))

\* adjustRvcJump without the permutation: offset[11:1] in order.
adjustRvcJumpInOrder(Value) == ToUnsigned(And(Shr(Value, 1), Mask(11)))

adjustRvcJump(Value) ==
    LET Bit11  == ToUnsigned(And(Shr(Value, 11), Mask(1)))
        Bit4   == ToUnsigned(And(Shr(Value, 4), Mask(1)))
        Bit9_8 == ToUnsigned(And(Shr(Value, 8), Mask(2)))
        Bit10  == ToUnsigned(And(Shr(Value, 10), Mask(1)))
        Bit6   == ToUnsigned(And(Shr(Value, 6), Mask(1)))
        Bit7   == ToUnsigned(And(Shr(Value, 7), Mask(1)))
        Bit3_1 == ToUnsigned(And(Shr(Value, 1), Mask(3)))
        Bit5   == ToUnsigned(And(Shr(Value, 5), Mask(1)))
    IN  ToUnsigned(
          Or(Or(Or(Shl(Bit11, 10), Shl(Bit4, 9)),
                Or(Shl(Bit9_8, 7), Shl(Bit10, 6))),
             Or(Or(Shl(Bit6, 5), Shl(Bit7, 4)),
                Or(Shl(Bit3_1, 1), Bit5))))

\* adjustRvcBranch without offset[5].
adjustRvcBranchNoBit5(Value) ==
    LET Bit8   == ToUnsigned(And(Shr(Value, 8), Mask(1)))
        Bit7_6 == ToUnsigned(And(Shr(Value, 6), Mask(2)))
        Bit4_3 == ToUnsigned(And(Shr(Value, 3), Mask(2)))
        Bit2_1 == ToUnsigned(And(Shr(Value, 1), Mask(2)))
    IN  ToUnsigned(
          Or(Or(Shl(Bit8, 12), Shl(Bit4_3, 10)),
             Or(Shl(Bit7_6, 5), Shl(Bit2_1, 3))))

adjustRvcBranch(Value) ==
    LET Bit8   == ToUnsigned(And(Shr(Value, 8), Mask(1)))
        Bit7_6 == ToUnsigned(And(Shr(Value, 6), Mask(2)))
        Bit5   == ToUnsigned(And(Shr(Value, 5), Mask(1)))
        Bit4_3 == ToUnsigned(And(Shr(Value, 3), Mask(2)))
        Bit2_1 == ToUnsigned(And(Shr(Value, 1), Mask(2)))
    IN  ToUnsigned(
          Or(Or(Or(Shl(Bit8, 12), Shl(Bit4_3, 10)),
                Or(Shl(Bit7_6, 5), Shl(Bit2_1, 3))),
             Shl(Bit5, 2)))

\* The value adjustFixupValue returns.
adjustFixupValue(Kind, Value) ==
    CASE Kind \in GenericKinds -> Value
      [] Kind = "fixup_riscv_lo12_i" -> adjustLo12I(Value)
      [] Kind = "fixup_riscv_lo12_s" -> adjustLo12S(Value)
      [] Kind \in {"fixup_riscv_hi20", "fixup_riscv_pcrel_hi20"} ->
             adjustHi20(Value)
      [] Kind = "fixup_riscv_jal" -> adjustJal(Value)
      [] Kind = "fixup_riscv_branch" -> adjustBranch(Value)
      [] Kind = "fixup_riscv_rvc_jump" -> adjustRvcJump(Value)
      [] Kind = "fixup_riscv_rvc_branch" -> adjustRvcBranch(Value)

RangeMsg == "fixup value out of range"

AlignMsg == "fixup value must be 2-byte aligned"

\* The checks of one case: a range check on N bits, then an alignment check.
checkedErrors(N, Value) ==
    (IF ~isInt(N, Value) THEN <<RangeMsg>> ELSE <<>>)
    \o (IF And(Value, Mask(1)) # {} THEN <<AlignMsg>> ELSE <<>>)

\* The messages adjustFixupValue hands to Ctx.reportError, in order.
adjustFixupErrors(Kind, Value) ==
    CASE Kind = "fixup_riscv_jal" -> checkedErrors(21, Value)
      [] Kind = "fixup_riscv_branch" -> checkedErrors(13, Value)
      [] OTHER -> <<>>

\* getSize
getSize(Kind) ==
    IF Kind \in {"fixup_riscv_rvc_jump", "fixup_riscv_rvc_branch"}
    THEN 2 ELSE 4

(***************************************************************************)
(* Inputs.                                                                 *)
(***************************************************************************)
\* Bit positions the values handed to adjustFixupValue are built from:
\* every bit a RISC-V kind moves or tests, the first bit outside each signed
\* range, the carry of Value + 0x800 into and out of the low word, and the
\* sign bit.
ValuePositions == (0 .. 13) \cup {19, 20, 21, 31, 32, 63}

\* Bit positions the values handed to applyFixup are built from: bits that
\* land in each byte of each kind's field, bit 0, the rounding bit 11, the
\* first bits outside the signed ranges, and the sign bit.
ApplyPositions == {0, 1, 4, 5, 8, 11, 12, 13, 20, 21, 32, 63}

\* The subsets of P of at most n elements.
RECURSIVE BitSets(_, _)
BitSets(P, n) ==
    IF n = 0 THEN {{}}
    ELSE LET S == BitSets(P, n - 1)
         IN  S \cup {s \cup {p} : s \in S, p \in P}

\* Values with at most n bits of P set, and their complements (the negative
\* values with at most n bits of P clear).
ValuesOf(P, n) == LET S == BitSets(P, n) IN S \cup {Not64(s) : s \in S}

AdjustValues == ValuesOf(ValuePositions, MaxAdjustBits)

ApplyValues == ValuesOf(ApplyPositions, MaxApplyBits)

NoFixup == [Kind |-> "none", Offset |-> U32(0, 0), Value |-> {}]

ZeroBuffer == [i \in 0 .. (BufLen - 1) |-> {}]

\* No fixup has been applied.
NoApply ==
    /\ Backend = "none"
    /\ Fixup = NoFixup
    /\ Data = ZeroBuffer
    /\ Before = ZeroBuffer
    /\ Adjusted = <<>>
    /\ Errors = <<>>
    /\ KsError = "KS_ERR_OK"
    /\ Aborted = FALSE
    /\ Stray = {}

\* No run of fixups is under way.
NoFixups ==
    /\ Initial = ZeroBuffer
    /\ Contrib = ZeroBuffer
    /\ NumApplied = 0

\* No hook has been called.
NoHook ==
    /\ Count = 0
    /\ OW = <<>>
    /\ Ret = <<>>
    /\ Call = "none"
    /\ Form = "Initial-Form"

\* No signal handling is set up.
NoOS ==
    /\ Threads = <<>>
    /\ InterruptFunction = "nullptr"
    /\ FilesToRemove = <<>>
    /\ CallBacksToRun = <<>>
    /\ NumRegisteredSignals = 0
    /\ RegisteredSignalInfo = <<>>
    /\ Handlers = <<>>
    /\ CriticalSection = <<>>
    /\ RegisteredUnhandledExceptionFilter = FALSE
    /\ CleanupExecuted = FALSE

\* No table has been built.
NoTable ==
    /\ Seqs = <<>>
    /\ Entries = 0
    /\ Emitted = <<>>
    /\ Arg = <<>>
    /\ Added = {}
    /\ LaidOut = FALSE
    /\ InOrder = TRUE

(***************************************************************************)
(* adjustFixupValue called on its own.                                     *)
(***************************************************************************)
InitAdjust ==
    /\ pc = "call"
    /\ Backend = "RISCV"
    /\ Fixup \in [Kind : RISCVKinds, Offset : {U32(0, 0)}, Value : AdjustValues]
    /\ Data = ZeroBuffer
    /\ Before = ZeroBuffer
    /\ Adjusted = <<>>
    /\ Errors = <<>>
    /\ KsError = "KS_ERR_OK"
    /\ Aborted = FALSE
    /\ Stray = {}
    /\ NoFixups /\ NoHook /\ NoTable
    /\ NoOS

AdjustFixupValue ==
    /\ pc = "call"
    /\ pc' = "done"
    /\ Adjusted' = <<adjustFixupValue(Fixup.Kind, Fixup.Value)>>
    /\ Errors' = adjustFixupErrors(Fixup.Kind, Fixup.Value)
    /\ UNCHANGED <<Backend, Fixup, Data, Before, KsError, Aborted, Stray>>
    /\ UNCHANGED <<fixupsVars, hookVars, tableVars>>
    /\ UNCHANGED osVars

NextAdjust == AdjustFixupValue

SpecAdjust == InitAdjust /\ [][NextAdjust]_vars

(***************************************************************************)
(* Properties of adjustFixupValue, checked under SpecAdjust.               *)
(***************************************************************************)
AdjustDone(Kinds) == pc = "done" /\ Fixup.Kind \in Kinds

IsEven(Value) == 0 \notin Value

\* (v[20]<<19) | (v[10:1]<<9) | (v[11]<<8) | v[19:12], bit by bit.
JalLayout(v) ==
    {b \in Bits64 : \/ b = 19 /\ 20 \in v
                    \/ b \in 9 .. 18 /\ (b - 8) \in v
                    \/ b = 8 /\ 11 \in v
                    \/ b \in 0 .. 7 /\ (b + 12) \in v}

\* C1: for every even value in the signed 21-bit range, fixup_riscv_jal
\* adjusts to (v[20]<<19) | (v[10:1]<<9) | (v[11]<<8) | v[19:12]; the raw
\* value 0x1000 yields the packed value 0x1.
C1_JalPacking ==
    AdjustDone({"fixup_riscv_jal"}) /\ IsEven(Fixup.Value)
      /\ isInt(21, Fixup.Value)
    => /\ Adjusted = <<JalLayout(Fixup.Value)>>
       /\ Fixup.Value = FromNat(4096) => ToNat(Adjusted[1]) = 1

\* The fixture 0x1000 has been adjusted to 0x1 without a diagnostic.
C1_Witness ==
    /\ AdjustDone({"fixup_riscv_jal"})
    /\ Fixup.Value = FromNat(4096)
    /\ Adjusted = <<{0}>>
    /\ Errors = <<>>

\* (v[12]<<31) | (v[10:5]<<25) | (v[4:1]<<8) | (v[11]<<7), bit by bit.
BranchLayout(v) ==
    {b \in Bits64 : \/ b = 31 /\ 12 \in v
                    \/ b \in 25 .. 30 /\ (b - 20) \in v
                    \/ b \in 8 .. 11 /\ (b - 7) \in v
                    \/ b = 7 /\ 11 \in v}

\* C2: for every even value in the signed 13-bit range, fixup_riscv_branch
\* adjusts to (v[12]<<31) | (v[10:5]<<25) | (v[4:1]<<8) | (v[11]<<7); the
\* raw value 0x20 yields 0x02000000.
C2_BranchPacking ==
    AdjustDone({"fixup_riscv_branch"}) /\ IsEven(Fixup.Value)
      /\ isInt(13, Fixup.Value)
    => /\ Adjusted = <<BranchLayout(Fixup.Value)>>
       /\ Fixup.Value = FromNat(32) => ToNat(Adjusted[1]) = 33554432

C2_Witness ==
    /\ AdjustDone({"fixup_riscv_branch"})
    /\ Fixup.Value = FromNat(32)
    /\ Adjusted = <<{25}>>
    /\ Errors = <<>>

\* The kinds whose target must be 2-byte aligned.
AlignedKinds ==
    {"fixup_riscv_jal", "fixup_riscv_branch", "fixup_riscv_rvc_jump",
     "fixup_riscv_rvc_branch"}

Reported(msg) == \E i \in 1 .. Len(Errors) : Errors[i] = msg

\* C4: for every odd value on jal, branch, rvc_jump and rvc_branch, the
\* adjust step reports an alignment error.
C4_OddValueReported ==
    AdjustDone(AlignedKinds) /\ ~IsEven(Fixup.Value) => Reported(AlignMsg)

\* C6: for every value, hi20 and pcrel_hi20 adjust to the 20-bit quantity
\* (value + 0x800) >> 12, that is value[31:12] plus the rounding bit
\* value[11] modulo 2^20, and lo12_i adjusts to the low 12 bits.
C6_HiLoSplit ==
    /\ AdjustDone({"fixup_riscv_hi20", "fixup_riscv_pcrel_hi20"})
       => /\ Adjusted[1] \subseteq 0 .. 19
          /\ ToNat(Adjusted[1]) =
               (ToNat({b \in 0 .. 19 : (b + 12) \in Fixup.Value})
                + (IF 11 \in Fixup.Value THEN 1 ELSE 0)) % 1048576
    /\ AdjustDone({"fixup_riscv_lo12_i"})
       => Adjusted = <<{b \in 0 .. 11 : b \in Fixup.Value}>>

\* A hi20 value whose low half needs the rounding compensation, with the
\* carry running through bit 12.
C6_Witness ==
    /\ AdjustDone({"fixup_riscv_hi20"})
    /\ Fixup.Value = {11, 12}
    /\ Adjusted = <<{1}>>

\* C7: for every value, lo12_s adjusts to a word with value[4:0] at bits
\* 11:7, value[11:5] at bits 31:25 and every other bit zero.
C7_StoreLowSplit ==
    AdjustDone({"fixup_riscv_lo12_s"})
    => Adjusted = <<{b \in Bits64 : \/ b \in 7 .. 11 /\ (b - 7) \in Fixup.Value
                                    \/ b \in 25 .. 31
                                       /\ (b - 20) \in Fixup.Value}>>

\* A value with a bit in each sub-field and one above bit 11.
C7_Witness ==
    /\ AdjustDone({"fixup_riscv_lo12_s"})
    /\ Fixup.Value = {4, 11, 12}
    /\ Adjusted = <<{11, 31}>>


(***************************************************************************)
(* applyFixup on a freshly encoded fragment.                               *)
(***************************************************************************)
\* Fragment contents the encoder may have left before the fixup is applied:
\* all bits clear, all bits set, and a mixed pattern.
InitBuffers ==
    {ZeroBuffer,
     [i \in 0 .. (BufLen - 1) |-> 0 .. 7],
     [i \in 0 .. (BufLen - 1) |-> IF i % 2 = 0 THEN {0, 1, 4} ELSE {2, 5, 7}]}

\* Fixup offsets: inside the buffer, at its end, and just below 2^32.
Offsets ==
    {U32(0, o) : o \in 0 .. BufLen}
    \cup {U32(65535, 65536 - k) : k \in 1 .. MaxWrapOffsets}

\* uint8_t(v)
ToByte(v) == v \cap (0 .. 7)

\* What a loop over the bytes of a fixup has done to the buffer (Data), to
\* memory outside it (Stray: the indexes written) and to the process.
Pass(D, S, A) == [Data |-> D, Stray |-> S, Aborted |-> A]

\* The iterations 0 .. Size-1 of a loop that accesses Data[Offset + i] in
\* its i-th iteration.  An index outside the buffer is undefined behaviour:
\* the access either traps (trap), which ends the loop there, or it lands in
\* memory that is not the buffer and the loop goes on.
Ran(Offset, Size, trap) ==
    IF trap
    THEN {i \in 0 .. (Size - 1) :
            \A k \in 0 .. i : InBuf(U32Add(Offset, k), BufLen)}
    ELSE 0 .. (Size - 1)

\* For each byte j of the buffer, the iterations that access it (at most
\* one, the indexes Offset + i being distinct).
LoopTargets(Offset, Size, trap) ==
    LET ran == Ran(Offset, Size, trap)
    IN  [j \in 0 .. (BufLen - 1) |->
           {i \in ran : U32Add(Offset, i) = U32(0, j)}]

\* The indexes outside the buffer that the loop writes.
LoopStray(Offset, Size, trap) ==
    {U32Add(Offset, i) : i \in {k \in Ran(Offset, Size, trap) :
                                  ~InBuf(U32Add(Offset, k), BufLen)}}

\* Whether an access of the loop trapped.
LoopAborted(Offset, Size, trap) == Ran(Offset, Size, trap) # 0 .. (Size - 1)

\* RISCVByte without the shift: every iteration takes the low byte.
RISCVByteNoShift(Value, i) == ToByte(And(Value, Mask(8)))

\* RISC-V: the byte iteration i takes from Value,
\* uint8_t((Value >> (i * 8)) & 0xff)
RISCVByte(Value, i) == ToByte(And(Shr(Value, i * 8), Mask(8)))

\* RISCVMaskIn storing the byte instead of OR-ing it in.
RISCVStore(old, byte) == byte

\* RISC-V: Data[Offset + i] |= byte
RISCVMaskIn(old, byte) == old \cup byte

\* RISC-V: for (unsigned i = 0; i != FullSize; ++i) Data[Offset + i] |= ...
RISCVLoop(D, Offset, Value, FullSize, trap) ==
    LET at == LoopTargets(Offset, FullSize, trap)
    IN  Pass([j \in 0 .. (BufLen - 1) |->
                IF at[j] = {} THEN D[j]
                ELSE RISCVMaskIn(D[j],
                                 RISCVByte(Value, CHOOSE i \in at[j] : TRUE))],
             LoopStray(Offset, FullSize, trap),
             LoopAborted(Offset, FullSize, trap))

\* The debug build's assert(Offset + NumBytes <= Data.size()).
RISCVAssertHolds(Kind, Offset) ==
    LET NumBytes == (RISCVGetFixupKindInfo(Kind).TargetSize + 7) \div 8
    IN  ~U32Gt(U32Add(Offset, NumBytes), BufLen)

\* RISCVAsmBackend::applyFixup.  NDEBUG is the build; trap is the outcome of
\* an access outside the buffer.
applyFixupRISCV(Kind, Offset, Value, NDEBUG, trap) ==
    /\ pc' = "applied"
    /\ Backend' = "RISCV"
    /\ Fixup' = [Kind |-> Kind, Offset |-> Offset, Value |-> Value]
    /\ Before' = Data
    /\ UNCHANGED KsError
    /\ IF Value = {}
       THEN /\ UNCHANGED <<Data, Adjusted, Errors, Aborted, Stray>>
       ELSE LET adj == adjustFixupValue(Kind, Value)
                V   == Shl(adj, RISCVGetFixupKindInfo(Kind).TargetOffset)
                st  == IF ~NDEBUG /\ ~RISCVAssertHolds(Kind, Offset)
                       THEN Pass(Data, {}, TRUE)
                       ELSE RISCVLoop(Data, Offset, V, getSize(Kind), trap)
            IN  /\ Adjusted' = <<adj>>
                /\ Errors' = adjustFixupErrors(Kind, Value)
                /\ Data' = st.Data
                /\ Stray' = st.Stray
                /\ Aborted' = st.Aborted

\* SDiv2 as an arithmetic shift right by one: rounds towards minus infinity.
SDiv2ArithmeticShift(Value) ==
    Shr(Value, 1) \cup (IF 63 \in Value THEN {63} ELSE {})

\* (int64_t)Value / 2: signed division, rounding towards zero.
SDiv2(Value) ==
    IF 63 \in Value THEN Neg64(Shr(Neg64(Value), 1)) ELSE Shr(Value, 1)

\* extractBitsForFixup
extractBitsForFixup(Kind, Value) ==
    CASE Kind \in GenericKinds -> Value
      [] Kind \in {"FK_390_PC16DBL", "FK_390_PC32DBL"} -> SDiv2(Value)
      [] Kind = "FK_390_TLS_CALL" -> {}

\* SystemZByte with the shift going up from 0: least significant byte first.
SystemZByteLittleEndian(Value, I, Size) == ToByte(Shr(Value, 8 * I))

\* SystemZ: the byte iteration I takes from Value, uint8_t(Value >>
\* ShiftValue), ShiftValue having gone down by 8 I times from Size * 8 - 8.
SystemZByte(Value, I, Size) == ToByte(Shr(Value, (Size * 8 - 8) - 8 * I))

\* SystemZMaskIn storing the byte instead of OR-ing it in.
SystemZStore(old, byte) == byte

\* SystemZ: Data[Offset + I] |= byte
SystemZMaskIn(old, byte) == old \cup byte

\* SystemZ: for (unsigned I = 0; I != Size; ++I) Data[Offset + I] |= ...
SystemZLoop(D, Offset, Value, Size, trap) ==
    LET at == LoopTargets(Offset, Size, trap)
    IN  Pass([j \in 0 .. (BufLen - 1) |->
                IF at[j] = {} THEN D[j]
                ELSE SystemZMaskIn(D[j],
                                   SystemZByte(Value,
                                               CHOOSE I \in at[j] : TRUE,
                                               Size))],
             LoopStray(Offset, Size, trap),
             LoopAborted(Offset, Size, trap))

\* The bounds check: Offset + Size > Data.size(), the sum taken on unsigned.
SystemZOutOfBounds(Offset, Size) == U32Gt(U32Add(Offset, Size), BufLen)

\* SystemZMCAsmBackend::applyFixup
applyFixupSystemZ(Kind, Offset, Value, trap) ==
    LET Size == (SystemZGetFixupKindInfo(Kind).TargetSize + 7) \div 8
    IN  /\ pc' = "applied"
        /\ Backend' = "SystemZ"
        /\ Fixup' = [Kind |-> Kind, Offset |-> Offset, Value |-> Value]
        /\ Before' = Data
        /\ UNCHANGED <<Adjusted, Errors>>
        /\ IF SystemZOutOfBounds(Offset, Size)
           THEN /\ KsError' = "KS_ERR_ASM_FIXUP_INVALID"
                /\ UNCHANGED <<Data, Aborted, Stray>>
           ELSE LET st == SystemZLoop(Data, Offset,
                                      extractBitsForFixup(Kind, Value),
                                      Size, trap)
                IN  /\ UNCHANGED KsError
                    /\ Data' = st.Data
                    /\ Stray' = st.Stray
                    /\ Aborted' = st.Aborted

Init ==
    /\ pc = "encoded"
    /\ Backend = "none"
    /\ Fixup = NoFixup
    /\ Data \in InitBuffers
    /\ Before = Data
    /\ Adjusted = <<>>
    /\ Errors = <<>>
    /\ KsError = "KS_ERR_OK"
    /\ Aborted = FALSE
    /\ Stray = {}
    /\ NoFixups /\ NoHook /\ NoTable
    /\ NoOS

\* A RISC-V assembly applies a resolved fixup to the encoded fragment.
RISCVApplyFixup ==
    /\ pc = "encoded"
    /\ \E Kind \in RISCVKinds, Offset \in Offsets, Value \in ApplyValues,
          NDEBUG \in BOOLEAN, trap \in BOOLEAN :
           applyFixupRISCV(Kind, Offset, Value, NDEBUG, trap)
    /\ UNCHANGED <<fixupsVars, hookVars, tableVars>>
    /\ UNCHANGED osVars

\* A SystemZ assembly applies a resolved fixup to the encoded fragment.
SystemZApplyFixup ==
    /\ pc = "encoded"
    /\ \E Kind \in SystemZKinds, Offset \in Offsets, Value \in ApplyValues,
          trap \in BOOLEAN :
           applyFixupSystemZ(Kind, Offset, Value, trap)
    /\ UNCHANGED <<fixupsVars, hookVars, tableVars>>
    /\ UNCHANGED osVars

Next == RISCVApplyFixup \/ SystemZApplyFixup

Spec == Init /\ [][Next]_vars

(***************************************************************************)
(* Properties of applyFixup, checked under Spec.                           *)
(***************************************************************************)
Applied(B) == pc = "applied" /\ Backend = B

\* Offset + Size <= Data.size(), the sum taken on the integers.
FitsBuffer(Offset, Size) == Offset.hi = 0 /\ Offset.lo + Size <= BufLen

\* The number of bytes a fixup covers: FullSize (2 for the compressed kinds,
\* 4 otherwise) on RISC-V, ceil(TargetSize / 8) on SystemZ.
FixupBytes(B, Kind) ==
    IF B = "RISCV"
    THEN (IF Kind \in {"fixup_riscv_rvc_jump", "fixup_riscv_rvc_branch"}
          THEN 2 ELSE 4)
    ELSE (SystemZGetFixupKindInfo(Kind).TargetSize + 7) \div 8

\* The PC-relative kinds of the two backends, each with the number of bits
\* of the signed range of its offset.
PCRelKinds ==
    {"fixup_riscv_pcrel_hi20", "fixup_riscv_jal", "fixup_riscv_branch",
     "fixup_riscv_rvc_jump", "fixup_riscv_rvc_branch",
     "FK_390_PC16DBL", "FK_390_PC32DBL"}

SignedWidth(Kind) ==
    CASE Kind = "fixup_riscv_pcrel_hi20" -> 32
      [] Kind = "fixup_riscv_jal" -> 21
      [] Kind = "fixup_riscv_branch" -> 13
      [] Kind = "fixup_riscv_rvc_jump" -> 12
      [] Kind = "fixup_riscv_rvc_branch" -> 9
      [] Kind = "FK_390_PC16DBL" -> 17
      [] Kind = "FK_390_PC32DBL" -> 33

\* C3: for every PC-relative kind of the two backends and every value
\* outside the kind's signed range, applying the fixup (here: to a buffer
\* it fits in) reports a range error and leaves every byte unchanged.
C3_OutOfRangeRejected ==
    /\ pc = "applied"
    /\ Fixup.Kind \in PCRelKinds
    /\ FitsBuffer(Fixup.Offset, FixupBytes(Backend, Fixup.Kind))
    /\ ~isInt(SignedWidth(Fixup.Kind), Fixup.Value)
    => /\ Reported(RangeMsg) \/ KsError # "KS_ERR_OK"
       /\ Data = Before

\* The FullSize bytes at byte offset o, read as a little-endian word.
ReadLE(D, o, n) == UNION {{b + 8 * i : b \in D[o + i]} : i \in 0 .. (n - 1)}

\* The values a kind accepts without a diagnostic.
ValidFor(Kind, Value) ==
    /\ Kind = "fixup_riscv_jal" => isInt(21, Value) /\ IsEven(Value)
    /\ Kind = "fixup_riscv_branch" => isInt(13, Value) /\ IsEven(Value)

\* C5: for every RISC-V target kind and every value valid for it, applying
\* the fixup to an all-zero buffer and reading FullSize bytes at the fixup
\* offset back as a little-endian word yields adjust(kind, value) shifted
\* left by the kind's TargetOffset.
C5_RoundTrip ==
    /\ Applied("RISCV")
    /\ Fixup.Kind \in RISCVTargetKinds
    /\ Before = ZeroBuffer
    /\ FitsBuffer(Fixup.Offset, FixupBytes("RISCV", Fixup.Kind))
    /\ ValidFor(Fixup.Kind, Fixup.Value)
    => ReadLE(Data, Fixup.Offset.lo, FixupBytes("RISCV", Fixup.Kind))
         = Shl(adjustFixupValue(Fixup.Kind, Fixup.Value),
               RISCVGetFixupKindInfo(Fixup.Kind).TargetOffset)

\* A jump whose packed field spreads over the upper three bytes of the
\* instruction word has been applied at a nonzero offset.
C5_Witness ==
    /\ Applied("RISCV")
    /\ Fixup.Kind = "fixup_riscv_jal"
    /\ Fixup.Value = Not64({0})
    /\ Fixup.Offset = U32(0, 2)
    /\ Before = ZeroBuffer
    /\ Data = [j \in 0 .. (BufLen - 1) |->
                 CASE j = 2 -> {}
                   [] j = 3 -> 4 .. 7
                   [] j \in {4, 5} -> 0 .. 7
                   [] OTHER -> {}]

\* C8: applying a fixup whose value is zero leaves the buffer unchanged,
\* for every kind, offset and prior content, on both backends.
C8_ZeroValueNoChange ==
    pc = "applied" /\ Fixup.Value = {} => Data = Before

\* A zero-valued SystemZ fixup has run its loop over a buffer with bits set.
C8_Witness ==
    /\ Applied("SystemZ")
    /\ Fixup.Kind = "FK_Data_4"
    /\ Fixup.Value = {}
    /\ Fixup.Offset = U32(0, 1)
    /\ KsError = "KS_ERR_OK"
    /\ Before # ZeroBuffer
    /\ Data = Before

\* C9: applyFixup never clears a bit that was set, and every byte outside
\* [offset, offset + FullSize) is left unchanged.
C9_OrMergeInRange ==
    pc = "applied"
    => \A j \in 0 .. (BufLen - 1) :
         /\ Before[j] \subseteq Data[j]
         /\ ~(/\ Fixup.Offset.hi = 0
              /\ Fixup.Offset.lo <= j
              /\ j < Fixup.Offset.lo + FixupBytes(Backend, Fixup.Kind))
            => Data[j] = Before[j]

\* C10: on SystemZ, for every fixup whose Offset + Size exceeds the buffer
\* length, applyFixup sets KsError to KS_ERR_ASM_FIXUP_INVALID and writes
\* no byte of the buffer.
C10_OutOfBoundsRejected ==
    Applied("SystemZ")
      /\ ~FitsBuffer(Fixup.Offset, FixupBytes("SystemZ", Fixup.Kind))
    => KsError = "KS_ERR_ASM_FIXUP_INVALID" /\ Data = Before

\* C11: on RISC-V, for every fixup with a nonzero value whose offset +
\* FullSize exceeds the buffer length, applyFixup reports a fixup bounds
\* error and writes no byte, without aborting the assembly.
C11_RISCVOutOfBoundsRejected ==
    /\ Applied("RISCV")
    /\ Fixup.Value # {}
    /\ ~FitsBuffer(Fixup.Offset, FixupBytes("RISCV", Fixup.Kind))
    => /\ KsError # "KS_ERR_OK"
       /\ Data = Before
       /\ Stray = {}
       /\ ~Aborted

(***************************************************************************)
(* Several fixups applied to one fragment, one after the other.            *)
(***************************************************************************)
\* How many fixups a fragment carries.
MaxFixups == 2

\* The kinds, offsets and values of the fixups of a run: fields of one and
\* of two bytes, one of them halved; offsets at the start of the buffer, at
\* its last byte, at its end and just below 2^32; a one-byte and a two-byte
\* value.
FixupsKinds == {"FK_Data_1", "FK_Data_2", "FK_390_PC16DBL"}

FixupsOffsets ==
    {U32(0, 0), U32(0, BufLen - 1), U32(0, BufLen), U32(65535, 65535)}

FixupsValues == {{0}, {1, 8}}

\* Byte number k of v, counted from the least significant.
ByteNo(v, k) == {b \in 0 .. 7 : (b + 8 * k) \in v}

\* The bits a fixup that lies inside the buffer carries, byte by byte of
\* the buffer: the field starts at Offset, most significant byte first.
FieldBytes(Kind, Offset, Value) ==
    LET Size == (SystemZGetFixupKindInfo(Kind).TargetSize + 7) \div 8
        bits == extractBitsForFixup(Kind, Value)
    IN  [j \in 0 .. (BufLen - 1) |->
           IF Offset.lo <= j /\ j < Offset.lo + Size
           THEN ByteNo(bits, Size - 1 - (j - Offset.lo))
           ELSE {}]

InitFixups ==
    /\ pc = "encoded"
    /\ Backend = "none"
    /\ Fixup = NoFixup
    /\ Data \in InitBuffers
    /\ Before = Data
    /\ Adjusted = <<>>
    /\ Errors = <<>>
    /\ KsError = "KS_ERR_OK"
    /\ Aborted = FALSE
    /\ Stray = {}
    /\ Initial = Data
    /\ Contrib = ZeroBuffer
    /\ NumApplied = 0
    /\ NoHook /\ NoTable
    /\ NoOS

\* The assembler applies the next fixup of the fragment, whatever became of
\* the ones before it, unless the process is gone.
SystemZApplyNextFixup ==
    /\ pc \in {"encoded", "applied"}
    /\ ~Aborted
    /\ NumApplied < MaxFixups
    /\ \E Kind \in FixupsKinds, Offset \in FixupsOffsets,
          Value \in FixupsValues, trap \in BOOLEAN :
           /\ applyFixupSystemZ(Kind, Offset, Value, trap)
           /\ Contrib' =
                IF FitsBuffer(Offset, FixupBytes("SystemZ", Kind))
                THEN [j \in 0 .. (BufLen - 1) |->
                        Contrib[j] \cup FieldBytes(Kind, Offset, Value)[j]]
                ELSE Contrib
    /\ NumApplied' = NumApplied + 1
    /\ UNCHANGED <<Initial, hookVars, tableVars>>
    /\ UNCHANGED osVars

NextFixups == SystemZApplyNextFixup

SpecFixups == InitFixups /\ [][NextFixups]_vars

\* C12: in every run of fixup applications to one buffer, an application
\* that fails the bounds check writes nothing and does not keep the later
\* ones from running: the buffer is the initial buffer OR-ed with the
\* fields of exactly the fixups that lie inside it.
C12_FailedFixupsIsolated ==
    /\ ~Aborted
    /\ Data = [j \in 0 .. (BufLen - 1) |-> Initial[j] \cup Contrib[j]]

(***************************************************************************)
(* More properties of applyFixup, checked under Spec.                      *)
(***************************************************************************)
\* C13: for every in-bounds SystemZ fixup of Size = ceil(TargetSize / 8)
\* bytes, insertion is big-endian: for each I in 0 .. Size-1, buffer byte
\* Offset + I is OR-ed with byte number Size-1-I (counted from the least
\* significant) of the extracted value.
C13_BigEndianInsertion ==
    Applied("SystemZ")
      /\ FitsBuffer(Fixup.Offset, FixupBytes("SystemZ", Fixup.Kind))
    => LET Size == FixupBytes("SystemZ", Fixup.Kind)
           bits == extractBitsForFixup(Fixup.Kind, Fixup.Value)
       IN  \A I \in 0 .. (Size - 1) :
             Data[Fixup.Offset.lo + I]
               = Before[Fixup.Offset.lo + I] \cup ByteNo(bits, Size - 1 - I)

\* The two-byte value 0x0100 has been inserted at offset 3 of an all-zero
\* buffer: its high byte 0x01 comes first.
C13_Witness ==
    /\ Applied("SystemZ")
    /\ Fixup.Kind = "FK_Data_2"
    /\ Fixup.Value = {8}
    /\ Fixup.Offset = U32(0, 3)
    /\ Before = ZeroBuffer
    /\ Data[3] = {0}
    /\ Data[4] = {}

(***************************************************************************)
(* extractBitsForFixup called on its own.                                  *)
(***************************************************************************)
InitExtract ==
    /\ pc = "call"
    /\ Backend = "SystemZ"
    /\ Fixup \in [Kind : SystemZKinds, Offset : {U32(0, 0)},
                  Value : AdjustValues]
    /\ Data = ZeroBuffer
    /\ Before = ZeroBuffer
    /\ Adjusted = <<>>
    /\ Errors = <<>>
    /\ KsError = "KS_ERR_OK"
    /\ Aborted = FALSE
    /\ Stray = {}
    /\ NoFixups /\ NoHook /\ NoTable
    /\ NoOS

ExtractBitsForFixup ==
    /\ pc = "call"
    /\ pc' = "done"
    /\ Adjusted' = <<extractBitsForFixup(Fixup.Kind, Fixup.Value)>>
    /\ UNCHANGED <<Backend, Fixup, Data, Before, Errors, KsError, Aborted,
                   Stray>>
    /\ UNCHANGED <<fixupsVars, hookVars, tableVars>>
    /\ UNCHANGED osVars

NextExtract == ExtractBitsForFixup

SpecExtract == InitExtract /\ [][NextExtract]_vars

\* What is left of an int64_t after division by 2 towards zero: 0 for an
\* even value, 1 for an odd positive one, -1 for an odd negative one.
Rem2(Value) ==
    IF 0 \notin Value THEN {}
    ELSE IF 63 \in Value THEN Not64({}) ELSE {0}

\* C14: for FK_390_PC16DBL and FK_390_PC32DBL the bits extracted are the
\* value, read as a signed 64-bit integer, divided by 2: the quotient q
\* lies in [-2^62, 2^62) and 2 * q plus the remainder (which has the sign
\* of the value) is the value, for every value, negative and odd included.
C14_SignedHalving ==
    AdjustDone({"FK_390_PC16DBL", "FK_390_PC32DBL"})
    => LET q == Adjusted[1]
       IN  /\ isInt(63, q)
           /\ Add64(Add64(q, q), Rem2(Fixup.Value)) = Fixup.Value

\* -3 has been halved to -1 (an arithmetic shift would give -2).
C14_Witness ==
    /\ AdjustDone({"FK_390_PC16DBL"})
    /\ Fixup.Value = Not64({1})
    /\ Adjusted = <<Not64({})>>

(***************************************************************************)
(* RISCVAsmBackend::writeNopData.                                          *)
(***************************************************************************)
\* The largest number of padding bytes asked for.
MaxNopCount == 64

\* The canonical nop, addi x0, x0, 0: the word handed to write32.
NopWord == 19

\* for (uint64_t i = 0; i < Count; i += 4) OW->write32(0x13);
\* out is the sequence of words handed to write32 so far.
RECURSIVE WriteNops(_, _, _)
WriteNops(out, i, n) ==
    IF i < n THEN WriteNops(Append(out, NopWord), i + 4, n) ELSE out

\* writeNopData with a granularity of 2 bytes.
writeNopDataHalfword(n, out) ==
    IF (n % 2) # 0 THEN [Ret |-> FALSE, OW |-> out]
    ELSE [Ret |-> TRUE, OW |-> WriteNops(out, 0, n)]

\* RISCVAsmBackend::writeNopData(Count, OW)
writeNopData(n, out) ==
    IF (n % 4) # 0 THEN [Ret |-> FALSE, OW |-> out]
    ELSE [Ret |-> TRUE, OW |-> WriteNops(out, 0, n)]

InitNop ==
    /\ pc = "call"
    /\ NoApply /\ NoFixups /\ NoTable
    /\ Count \in 0 .. MaxNopCount
    /\ OW = <<>>
    /\ Ret = <<>>
    /\ Call = "none"
    /\ Form = "Initial-Form"
    /\ NoOS

WriteNopData ==
    /\ pc = "call"
    /\ pc' = "done"
    /\ Call' = "writeNopData"
    /\ LET r == writeNopData(Count, OW)
       IN  Ret' = <<r.Ret>> /\ OW' = r.OW
    /\ UNCHANGED <<Count, Form, applyVars, fixupsVars, tableVars>>
    /\ UNCHANGED osVars

NextNop == WriteNopData

SpecNop == InitNop /\ [][NextNop]_vars

\* C15: writeNopData(Count) returns true exactly when Count is a multiple
\* of 4; it then emits exactly Count / 4 copies of the word 0x00000013 and
\* nothing else (two words for 8 bytes); otherwise it returns false and
\* emits nothing.
C15_NopPadding ==
    pc = "done" /\ Call = "writeNopData"
    => /\ Ret = <<Count % 4 = 0>>
       /\ OW = IF Count % 4 = 0 THEN [k \in 1 .. (Count \div 4) |-> 19]
               ELSE <<>>
       /\ Count = 8 => OW = <<19, 19>>

\* Eight bytes of padding have been written as two nops.
C15_Witness ==
    /\ pc = "done"
    /\ Call = "writeNopData"
    /\ Count = 8
    /\ Ret = <<TRUE>>
    /\ OW = <<19, 19>>

(***************************************************************************)
(* The relaxation hooks of the RISC-V, SystemZ and Mips backends.          *)
(***************************************************************************)
Targets == {"RISCV", "SystemZ", "Mips"}

\* Instructions handed to the hooks (none of the hooks looks at them).
Insts == {"addi", "jal", "beq", "c.j"}

\* A hook has returned b; a hook has returned nothing.
Returned(b) == [Aborted |-> FALSE, Ret |-> <<b>>]

ReturnedVoid == [Aborted |-> FALSE, Ret |-> <<>>]

\* llvm_unreachable(msg): a build with assertions reports msg and aborts;
\* a build without them has undefined behaviour there, which may abort as
\* well or fall out of the function, returning whatever (garbage).
llvm_unreachable(abort, garbage) ==
    IF abort THEN [Aborted |-> TRUE, Ret |-> <<>>]
    ELSE [Aborted |-> FALSE, Ret |-> garbage]

\* mayNeedRelaxation(Inst) of backend T
mayNeedRelaxation(T, Inst) == Returned(FALSE)

\* fixupNeedsRelaxation(Fixup, Value, DF, Layout, KsError) of backend T
fixupNeedsRelaxation(T, Fx, abort, garbage) ==
    IF T = "Mips" THEN llvm_unreachable(abort, <<garbage>>)
    ELSE Returned(FALSE)

\* relaxInstruction(Inst, Res) of backend T
relaxInstruction(T, Inst, abort) ==
    IF T = "Mips" THEN ReturnedVoid
    ELSE llvm_unreachable(abort, <<>>)

InitRelax ==
    /\ pc = "call"
    /\ Backend \in Targets
    /\ Fixup \in [Kind : GenericKinds, Offset : {U32(0, 0)},
                  Value : FixupsValues \cup {{}}]
    /\ Data = ZeroBuffer
    /\ Before = ZeroBuffer
    /\ Adjusted = <<>>
    /\ Errors = <<>>
    /\ KsError = "KS_ERR_OK"
    /\ Aborted = FALSE
    /\ Stray = {}
    /\ NoFixups /\ NoHook /\ NoTable
    /\ NoOS

MayNeedRelaxation ==
    /\ pc = "call"
    /\ pc' = "done"
    /\ Call' = "mayNeedRelaxation"
    /\ \E Inst \in Insts :
         LET r == mayNeedRelaxation(Backend, Inst)
         IN  Ret' = r.Ret /\ Aborted' = r.Aborted
    /\ UNCHANGED <<Backend, Fixup, Data, Before, Adjusted, Errors, KsError,
                   Stray, Count, OW, Form, fixupsVars, tableVars>>
    /\ UNCHANGED osVars

FixupNeedsRelaxation ==
    /\ pc = "call"
    /\ pc' = "done"
    /\ Call' = "fixupNeedsRelaxation"
    /\ \E abort \in BOOLEAN, garbage \in BOOLEAN :
         LET r == fixupNeedsRelaxation(Backend, Fixup, abort, garbage)
         IN  Ret' = r.Ret /\ Aborted' = r.Aborted
    /\ UNCHANGED <<Backend, Fixup, Data, Before, Adjusted, Errors, KsError,
                   Stray, Count, OW, Form, fixupsVars, tableVars>>
    /\ UNCHANGED osVars

\* Where relaxInstruction returns without having written Res, the caller's
\* fragment keeps the instruction it had.
RelaxInstruction ==
    /\ pc = "call"
    /\ pc' = "done"
    /\ Call' = "relaxInstruction"
    /\ \E Inst \in Insts, abort \in BOOLEAN :
         LET r == relaxInstruction(Backend, Inst, abort)
         IN  Ret' = r.Ret /\ Aborted' = r.Aborted
    /\ UNCHANGED <<Backend, Fixup, Data, Before, Adjusted, Errors, KsError,
                   Stray, Count, OW, Form, fixupsVars, tableVars>>
    /\ UNCHANGED osVars

\* One step of the layout loop over a fragment: the fragment is widened
\* when the backend says its instruction may need relaxation and its fixup
\* does need it.
LayoutFragment ==
    /\ pc = "call"
    /\ pc' = "done"
    /\ Call' = "layout"
    /\ \E Inst \in Insts, abort \in BOOLEAN, garbage \in BOOLEAN :
         LET may == mayNeedRelaxation(Backend, Inst)
             fx  == fixupNeedsRelaxation(Backend, Fixup, abort, garbage)
             rx  == relaxInstruction(Backend, Inst, abort)
         IN  IF may.Ret = <<FALSE>>
             THEN Ret' = <<FALSE>> /\ UNCHANGED <<Aborted, Form>>
             ELSE IF fx.Aborted \/ fx.Ret = <<FALSE>>
             THEN Ret' = fx.Ret /\ Aborted' = fx.Aborted /\ UNCHANGED Form
             ELSE /\ Ret' = <<TRUE>>
                  /\ Aborted' = rx.Aborted
                  /\ Form' = IF rx.Aborted THEN Form ELSE "Relaxed-Form"
    /\ UNCHANGED <<Backend, Fixup, Data, Before, Adjusted, Errors, KsError,
                   Stray, Count, OW, fixupsVars, tableVars>>
    /\ UNCHANGED osVars

NextRelax ==
    MayNeedRelaxation \/ FixupNeedsRelaxation \/ RelaxInstruction
      \/ LayoutFragment

SpecRelax == InitRelax /\ [][NextRelax]_vars

\* C16: on RISC-V, SystemZ and Mips, mayNeedRelaxation and
\* fixupNeedsRelaxation return false, without aborting, for every
\* instruction, fixup and value, and no fragment leaves its Initial-Form in
\* a layout step.
C16_NoRelaxationNeeded ==
    /\ pc = "done" /\ Call \in {"mayNeedRelaxation", "fixupNeedsRelaxation"}
       => Ret = <<FALSE>> /\ ~Aborted
    /\ pc = "done" /\ Call = "layout" => Form = "Initial-Form"

(***************************************************************************)
(* SequenceToOffsetTable, in a build with assertions.                      *)
(***************************************************************************)
\* Sequences are at most MaxSeqLen long, and at most MaxAdded different
\* ones are handed to add().
MaxSeqLen == 2

MaxAdded == 2

\* The elements sequences are made of (any type ordered by less-than).
Elems == {1, 2}

\* emit()'s default terminator, "0".
Term == 0

RECURSIVE SeqsOfLen(_)
SeqsOfLen(n) ==
    IF n = 0 THEN {<<>>}
    ELSE {Append(q, e) : q \in SeqsOfLen(n - 1), e \in Elems}

AllSeqs == UNION {SeqsOfLen(n) : n \in 0 .. MaxSeqLen}

\* *(A.rbegin() + (i - 1)): the i-th element of A from its end.
RevAt(A, i) == A[Len(A) + 1 - i]

\* SeqLess: lexicographical_compare of the reversed sequences.
SeqLess(A, B) ==
    \E i \in 1 .. Len(B) :
       /\ \A j \in 1 .. (i - 1) : j <= Len(A) /\ RevAt(A, j) = RevAt(B, j)
       /\ i > Len(A) \/ RevAt(A, i) < RevAt(B, i)

\* isSuffix(A, B): A is a suffix of B.
isSuffix(A, B) ==
    /\ Len(A) <= Len(B)
    /\ \A i \in 1 .. Len(A) : RevAt(A, i) = RevAt(B, i)

\* Seqs.lower_bound(Key) over the keys K: the first key not less than Key,
\* as a set of at most one key (the empty set is Seqs.end()).
lower_bound(K, Key) ==
    {k \in K : /\ ~SeqLess(k, Key)
               /\ \A x \in K : ~SeqLess(x, Key) => x = k \/ SeqLess(k, x)}

\* --I for the iterator at Key: the last key less than Key (the empty set
\* when Key is at Seqs.begin()).
prev(K, Key) ==
    {k \in K : /\ SeqLess(k, Key)
               /\ \A x \in K : SeqLess(x, Key) => x = k \/ SeqLess(x, k)}

\* *Seqs.begin() over the nonempty set of keys K.
begin(K) == CHOOSE k \in K : \A x \in K : x = k \/ SeqLess(k, x)

\* add() that inserts Seq and keeps the sequence before it.
addKeepingSuffix(S, Key) ==
    LET K == DOMAIN S
        I == lower_bound(K, Key)
    IN  IF I # {} /\ isSuffix(Key, CHOOSE k \in I : TRUE) THEN S
        ELSE [k \in K \cup {Key} |-> IF k = Key THEN 0 ELSE S[k]]

\* add() without the test for a sequence that Seq is a suffix of.
addAlways(S, Key) ==
    LET K  == DOMAIN S
        P  == prev(K, Key)
        K1 == IF P # {} /\ isSuffix(CHOOSE k \in P : TRUE, Key)
              THEN (K \cup {Key}) \ P
              ELSE K \cup {Key}
    IN  [k \in K1 |-> IF k = Key THEN 0 ELSE S[k]]

\* add(Seq), after its assertion: the new value of Seqs.
add(S, Key) ==
    LET K == DOMAIN S
        I == lower_bound(K, Key)
    IN  IF I # {} /\ isSuffix(Key, CHOOSE k \in I : TRUE) THEN S
        ELSE LET P  == prev(K, Key)
                 K1 == IF P # {} /\ isSuffix(CHOOSE k \in P : TRUE, Key)
                       THEN (K \cup {Key}) \ P
                       ELSE K \cup {Key}
             IN  [k \in K1 |-> IF k = Key THEN 0 ELSE S[k]]

\* The entries the keys K take: size() + 1 for each.
RECURSIVE EntriesOf(_)
EntriesOf(K) ==
    IF K = {} THEN 0
    ELSE LET k == begin(K) IN Len(k) + 1 + EntriesOf(K \ {k})

\* layout(), after its assertion: each sequence gets the number of entries
\* before it as its offset; Entries goes up by all of them.
layout(S, E) ==
    LET K == DOMAIN S
    IN  [Seqs |-> [k \in K |-> E + EntriesOf({x \in K : SeqLess(x, k)})],
         Entries |-> E + EntriesOf(K)]

\* get() returning the offset of the entry, without the length difference.
getEntry(S, Key) ==
    LET I == lower_bound(DOMAIN S, Key)
    IN  IF I = {} \/ ~isSuffix(Key, CHOOSE k \in I : TRUE) THEN <<>>
        ELSE LET k == CHOOSE x \in I : TRUE IN <<S[k]>>

\* get(Seq), after its first assertion: <<offset>>, or <<>> when the second
\* assertion (the sequence is not in the table) trips.
get(S, Key) ==
    LET I == lower_bound(DOMAIN S, Key)
    IN  IF I = {} \/ ~isSuffix(Key, CHOOSE k \in I : TRUE) THEN <<>>
        ELSE LET k == CHOOSE x \in I : TRUE
             IN  <<S[k] + (Len(k) - Len(Key))>>

\* emit(), after its assertion: the elements of each sequence, in the order
\* of Seqs, each sequence followed by the terminator.
RECURSIVE emit(_)
emit(K) ==
    IF K = {} THEN <<>>
    ELSE LET k == begin(K) IN k \o <<Term>> \o emit(K \ {k})

InitTable ==
    /\ pc = "table"
    /\ NoApply /\ NoFixups /\ NoHook /\ NoTable
    /\ NoOS

\* add(Seq): assert(Entries == 0 && "Cannot call add() after layout()")
Add ==
    /\ pc = "table" /\ ~Aborted
    /\ \E Key \in AllSeqs :
         /\ Cardinality(Added \cup {Key}) <= MaxAdded
         /\ Arg' = Key
         /\ IF Entries = 0
            THEN /\ Seqs' = add(Seqs, Key)
                 /\ Added' = Added \cup {Key}
                 /\ UNCHANGED Aborted
            ELSE /\ Aborted' = TRUE
                 /\ UNCHANGED <<Seqs, Added>>
    /\ Call' = "add"
    /\ Ret' = <<>>
    /\ InOrder' = (InOrder /\ ~LaidOut)
    /\ UNCHANGED <<Entries, Emitted, LaidOut>>
    /\ UNCHANGED <<pc, Backend, Fixup, Data, Before, Adjusted, Errors, KsError,
                   Stray, fixupsVars, Count, OW, Form>>
    /\ UNCHANGED osVars

\* layout(): assert(Entries == 0 && "Can only call layout() once")
Layout ==
    /\ pc = "table" /\ ~Aborted
    /\ IF Entries = 0
       THEN /\ Seqs' = layout(Seqs, Entries).Seqs
            /\ Entries' = layout(Seqs, Entries).Entries
            /\ UNCHANGED Aborted
       ELSE /\ Aborted' = TRUE
            /\ UNCHANGED <<Seqs, Entries>>
    /\ Call' = "layout"
    /\ Ret' = <<>>
    /\ LaidOut' = TRUE
    /\ InOrder' = (InOrder /\ ~LaidOut)
    /\ UNCHANGED <<Emitted, Arg, Added>>
    /\ UNCHANGED <<pc, Backend, Fixup, Data, Before, Adjusted, Errors, KsError,
                   Stray, fixupsVars, Count, OW, Form>>
    /\ UNCHANGED osVars

\* size(): assert(Entries && "Call layout() before size()")
Size ==
    /\ pc = "table" /\ ~Aborted
    /\ IF Entries # 0
       THEN Ret' = <<Entries>> /\ UNCHANGED Aborted
       ELSE Ret' = <<>> /\ Aborted' = TRUE
    /\ Call' = "size"
    /\ InOrder' = (InOrder /\ LaidOut)
    /\ UNCHANGED <<Seqs, Entries, Emitted, Arg, Added, LaidOut>>
    /\ UNCHANGED <<pc, Backend, Fixup, Data, Before, Adjusted, Errors, KsError,
                   Stray, fixupsVars, Count, OW, Form>>
    /\ UNCHANGED osVars

\* get(Seq): assert(Entries && "Call layout() before get()"), then
\* assert(I != Seqs.end() && isSuffix(Seq, I->first) && ...)
Get ==
    /\ pc = "table" /\ ~Aborted
    /\ \E Key \in AllSeqs :
         /\ Arg' = Key
         /\ IF Entries # 0 /\ get(Seqs, Key) # <<>>
            THEN Ret' = get(Seqs, Key) /\ UNCHANGED Aborted
            ELSE Ret' = <<>> /\ Aborted' = TRUE
    /\ Call' = "get"
    /\ InOrder' = (InOrder /\ LaidOut)
    /\ UNCHANGED <<Seqs, Entries, Emitted, Added, LaidOut>>
    /\ UNCHANGED <<pc, Backend, Fixup, Data, Before, Adjusted, Errors, KsError,
                   Stray, fixupsVars, Count, OW, Form>>
    /\ UNCHANGED osVars

\* emit(OS, Print): assert(Entries && "Call layout() before emit()")
Emit ==
    /\ pc = "table" /\ ~Aborted
    /\ IF Entries # 0
       THEN Emitted' = emit(DOMAIN Seqs) /\ UNCHANGED Aborted
       ELSE Aborted' = TRUE /\ UNCHANGED Emitted
    /\ Call' = "emit"
    /\ Ret' = <<>>
    /\ InOrder' = (InOrder /\ LaidOut)
    /\ UNCHANGED <<Seqs, Entries, Arg, Added, LaidOut>>
    /\ UNCHANGED <<pc, Backend, Fixup, Data, Before, Adjusted, Errors, KsError,
                   Stray, fixupsVars, Count, OW, Form>>
    /\ UNCHANGED osVars

NextTable == Add \/ Layout \/ Size \/ Get \/ Emit

SpecTable == InitTable /\ [][NextTable]_vars

\* C17: after add() calls followed by layout(), for every sequence S that
\* was added, get(S) returns an offset o such that entries o .. o+|S|-1 of
\* the emitted table are the elements of S in order and entry o+|S| is a
\* terminator.
C17_GetFindsSequence ==
    Call = "get" /\ InOrder /\ Arg \in Added
    => /\ ~Aborted
       /\ Len(Ret) = 1
       /\ LET o == Ret[1]
              T == emit(DOMAIN Seqs)
          IN  /\ o + Len(Arg) + 1 <= Len(T)
              /\ \A i \in 1 .. Len(Arg) : T[o + i] = Arg[i]
              /\ T[o + Len(Arg) + 1] = Term

\* <<1>> was added, then replaced by <<2, 1>>, of which it is a suffix:
\* get(<<1>>) points into the entries of <<2, 1>>.
C17_Witness ==
    /\ Call = "get"
    /\ InOrder
    /\ Arg = <<1>>
    /\ Added = {<<1>>, <<2, 1>>}
    /\ DOMAIN Seqs = {<<2, 1>>}
    /\ Ret = <<1>>

\* C18: a call trips its ordering assertion exactly when it violates the
\* order add()* ; layout() ; (size() | get() | emit())*: add() or a second
\* layout() after layout() is rejected, and size(), get() of an added
\* sequence and emit() are accepted once layout() has been called.
C18_CallProtocol ==
    Call \in {"add", "layout", "size", "emit"}
      \/ (Call = "get" /\ Arg \in Added)
    => (Aborted <=> ~InOrder)

(***************************************************************************)
(* More properties of adjustFixupValue, checked under SpecAdjust.          *)
(***************************************************************************)
\* offset[11|4|9:8|10|6|7|3:1|5] at bits 10 .. 0, bit by bit.
RvcJumpLayout(v) ==
    {b \in Bits64 : \/ b = 10 /\ 11 \in v
                    \/ b = 9 /\ 4 \in v
                    \/ b \in 7 .. 8 /\ (b + 1) \in v
                    \/ b = 6 /\ 10 \in v
                    \/ b = 5 /\ 6 \in v
                    \/ b = 4 /\ 7 \in v
                    \/ b \in 1 .. 3 /\ b \in v
                    \/ b = 0 /\ 5 \in v}

\* offset[8|4:3] at bits 12:10 and offset[7:6|2:1|5] at bits 6:2.
RvcBranchLayout(v) ==
    {b \in Bits64 : \/ b = 12 /\ 8 \in v
                    \/ b \in 10 .. 11 /\ (b - 7) \in v
                    \/ b \in 5 .. 6 /\ (b + 1) \in v
                    \/ b \in 3 .. 4 /\ (b - 2) \in v
                    \/ b = 2 /\ 5 \in v}

\* C19: for every value, fixup_riscv_rvc_jump places offset bits
\* [11|4|9:8|10|6|7|3:1|5], in that order, into bits 10 .. 0 of the adjusted
\* value (instruction bits 12 .. 2 after the shift by its TargetOffset, 2),
\* and fixup_riscv_rvc_branch places offset[8|4:3] at bits 12:10 and
\* offset[7:6|2:1|5] at bits 6:2.
C19_CompressedPacking ==
    /\ AdjustDone({"fixup_riscv_rvc_jump"})
       => /\ Adjusted = <<RvcJumpLayout(Fixup.Value)>>
          /\ RISCVGetFixupKindInfo(Fixup.Kind).TargetOffset = 2
          /\ Shl(Adjusted[1], 2) \subseteq 2 .. 12
    /\ AdjustDone({"fixup_riscv_rvc_branch"})
       => Adjusted = <<RvcBranchLayout(Fixup.Value)>>

\* A jump offset with bits 4, 5 and 11 set: they land at bits 9, 0 and 10.
C19_Witness ==
    /\ AdjustDone({"fixup_riscv_rvc_jump"})
    /\ Fixup.Value = {4, 5, 11}
    /\ Adjusted = <<{0, 9, 10}>>

\* A 12-bit immediate as the instruction reads it: sign-extended.
SignExtend12(lo) == IF 11 \in lo THEN lo \cup (12 .. 63) ELSE lo

\* (hi << 12) + sign-extended lo, modulo 2^32.
Recombine(hi, lo) == ToUnsigned(Add64(Shl(hi, 12), SignExtend12(lo)))

\* C20: for every value v, (hi20(v) << 12) plus the sign-extended 12-bit
\* lo12(v) equals v modulo 2^32, hi20 and lo12 being the adjusted values of
\* the hi20 and lo12_i kinds.
C20_HiLoRecombination ==
    /\ AdjustDone({"fixup_riscv_hi20"})
       => Recombine(Adjusted[1],
                    adjustFixupValue("fixup_riscv_lo12_i", Fixup.Value))
            = ToUnsigned(Fixup.Value)
    /\ AdjustDone({"fixup_riscv_lo12_i"})
       => Recombine(adjustFixupValue("fixup_riscv_hi20", Fixup.Value),
                    Adjusted[1])
            = ToUnsigned(Fixup.Value)

\* 0x2800 has been split: its low half 0x800 reads as -2048, so the high
\* half is 3 and 0x3000 - 0x800 gives the value back.
C20_Witness ==
    /\ AdjustDone({"fixup_riscv_hi20"})
    /\ Fixup.Value = {11, 13}
    /\ Adjusted = <<{0, 1}>>
    /\ adjustFixupValue("fixup_riscv_lo12_i", Fixup.Value) = {11}
    /\ Recombine(Adjusted[1], {11}) = Fixup.Value

(***************************************************************************)
(* More properties of SequenceToOffsetTable, checked under SpecTable.      *)
(***************************************************************************)
\* q is the end of t: t is some elements followed by q.
EndOf(q, t) ==
    Len(q) <= Len(t) /\ SubSeq(t, Len(t) - Len(q) + 1, Len(t)) = q

\* C21: after any sequence of add() calls the stored set is exactly the
\* set of added sequences that are not a proper suffix of another added
\* sequence; no stored sequence is a suffix of another stored one, and
\* every added sequence is a suffix of a stored one.
C21_StoredAreMaximal ==
    ~Aborted
    => /\ DOMAIN Seqs =
            {q \in Added : \A t \in Added : EndOf(q, t) => t = q}
       /\ \A q \in DOMAIN Seqs, t \in DOMAIN Seqs : EndOf(q, t) => t = q
       /\ \A q \in Added : \E t \in DOMAIN Seqs : EndOf(q, t)

\* add(<<2, 1>>) has just replaced <<1>>, which was stored before it.
C21_Witness ==
    /\ Call = "add"
    /\ ~LaidOut
    /\ Arg = <<2, 1>>
    /\ Added = {<<1>>, <<2, 1>>}
    /\ DOMAIN Seqs = {<<2, 1>>}

(***************************************************************************)
(* Signal handling on Unix (lib/Support/Unix/Signals.inc).  Public         *)
(* operations run on any thread; each takes SignalsMutex for its update of *)
(* the shared list or pointer, releases it, and then calls                 *)
(* RegisterHandlers(), which runs without the mutex.  A step of a thread   *)
(* is one locked section, the check of RegisterHandlers(), or one of its   *)
(* two loops; SignalHandler runs as one step.  Every run of these steps is *)
(* a run of the program; the program has more, with finer steps.           *)
(***************************************************************************)
MaxSignalCalls == 1

ThreadIds == {"t1", "t2"}

\* The signals of a Linux build: SIGSYS, SIGXCPU and SIGXFSZ are defined
\* there and SIGEMT is not.
IntSigs == <<"SIGHUP", "SIGINT", "SIGPIPE", "SIGTERM", "SIGUSR1", "SIGUSR2">>

KillSigs == <<"SIGILL", "SIGTRAP", "SIGABRT", "SIGFPE", "SIGBUS", "SIGSEGV",
              "SIGQUIT", "SIGSYS", "SIGXCPU", "SIGXFSZ">>

Signals == {IntSigs[i] : i \in DOMAIN IntSigs}
               \cup {KillSigs[i] : i \in DOMAIN KillSigs}

\* array_lengthof(RegisteredSignalInfo)
RegisteredSignalInfoLength == Len(IntSigs) + Len(KillSigs)

\* The elements of RegisteredSignalInfo are indexed from 0 in the source
\* and from 1 here.
NoSignalInfo ==
    [i \in 1..RegisteredSignalInfoLength |-> [SA |-> "zero", SigNo |-> "0"]]

\* The handlers the process had before the library registered any.
OriginalHandlers == [Sig \in Signals |-> "SIG_DFL"]

IdleThread == [at |-> "idle", Calls |-> 0]

InitSignals ==
    /\ pc = "signals"
    /\ NoApply /\ NoFixups /\ NoHook /\ NoTable
    /\ Threads = [t \in ThreadIds |-> IdleThread]
    /\ InterruptFunction = "nullptr"
    /\ FilesToRemove = <<>>
    /\ CallBacksToRun = <<>>
    /\ NumRegisteredSignals = 0
    /\ RegisteredSignalInfo = NoSignalInfo
    /\ Handlers = OriginalHandlers
    /\ CriticalSection = <<>>
    /\ RegisteredUnhandledExceptionFilter = FALSE
    /\ CleanupExecuted = FALSE

\* What the signal model leaves alone.
signalFrame ==
    <<Backend, Fixup, Data, Before, Adjusted, Errors, KsError, fixupsVars,
      hookVars, tableVars, CriticalSection,
      RegisteredUnhandledExceptionFilter, CleanupExecuted>>

\* Thread t enters a public operation and is left in front of its call of
\* RegisterHandlers().
Enter(t) ==
    [Threads EXCEPT ![t] = [at |-> "RegisterHandlers",
                            Calls |-> Threads[t].Calls + 1]]

CanCall(t) ==
    /\ pc = "signals"
    /\ ~Aborted
    /\ Threads[t].at = "idle"
    /\ Threads[t].Calls < MaxSignalCalls

SetInterruptFunction(t) ==
    /\ CanCall(t)
    /\ \E Fn \in {"nullptr", "IF"} : InterruptFunction' = Fn
    /\ Threads' = Enter(t)
    /\ UNCHANGED <<pc, Aborted, Stray, FilesToRemove, CallBacksToRun,
                   NumRegisteredSignals, RegisteredSignalInfo, Handlers,
                   signalFrame>>

RemoveFileOnSignal(t) ==
    /\ CanCall(t)
    /\ FilesToRemove' = Append(FilesToRemove, "Filename")
    /\ Threads' = Enter(t)
    /\ UNCHANGED <<pc, Aborted, Stray, InterruptFunction, CallBacksToRun,
                   NumRegisteredSignals, RegisteredSignalInfo, Handlers,
                   signalFrame>>

AddSignalHandler(t) ==
    /\ CanCall(t)
    /\ CallBacksToRun' = Append(CallBacksToRun, "FnPtr")
    /\ Threads' = Enter(t)
    /\ UNCHANGED <<pc, Aborted, Stray, InterruptFunction, FilesToRemove,
                   NumRegisteredSignals, RegisteredSignalInfo, Handlers,
                   signalFrame>>

\* The check at the head of RegisterHandlers(): return if some handler is
\* registered, otherwise go on to the loop over IntSigs.
RegisterHandlers(t) ==
    /\ pc = "signals"
    /\ ~Aborted
    /\ Threads[t].at = "RegisterHandlers"
    /\ Threads' = [Threads EXCEPT ![t].at =
                       IF NumRegisteredSignals # 0 THEN "idle"
                       ELSE "IntSigs"]
    /\ UNCHANGED <<pc, Aborted, Stray, InterruptFunction, FilesToRemove,
                   CallBacksToRun, NumRegisteredSignals, RegisteredSignalInfo,
                   Handlers, signalFrame>>

\* The registration state RegisterHandler works on.
Registered ==
    [Num |-> NumRegisteredSignals, Saved |-> RegisteredSignalInfo,
     Handlers |-> Handlers, Stray |-> Stray, Aborted |-> Aborted]

\* RegisterHandler(Signal) from registration state R.  When no element is
\* free the assertion fails, and a build without assertions (NDEBUG)
\* writes behind the array (Stray: the indexes written).
RegisterHandler(R, Signal, NDEBUG) ==
    IF R.Aborted THEN R
    ELSE IF R.Num < RegisteredSignalInfoLength
    THEN [R EXCEPT !.Saved[R.Num + 1] =
                       [SA |-> R.Handlers[Signal], SigNo |-> Signal],
                   !.Handlers[Signal] = "SignalHandler",
                   !.Num = R.Num + 1]
    ELSE IF NDEBUG
    THEN [R EXCEPT !.Stray = R.Stray \cup {R.Num},
                   !.Handlers[Signal] = "SignalHandler",
                   !.Num = R.Num + 1]
    ELSE [R EXCEPT !.Aborted = TRUE]

\* for (auto S : Sigs) RegisterHandler(S), for the first n signals.
RECURSIVE RegisterEach(_, _, _, _)
RegisterEach(R, Sigs, n, NDEBUG) ==
    IF n = 0 THEN R
    ELSE RegisterHandler(RegisterEach(R, Sigs, n - 1, NDEBUG), Sigs[n],
                         NDEBUG)

\* Thread t runs the first loop of RegisterHandlers().
RegisterIntSigs(t) ==
    /\ pc = "signals"
    /\ ~Aborted
    /\ Threads[t].at = "IntSigs"
    /\ \E NDEBUG \in BOOLEAN :
          LET R == RegisterEach(Registered, IntSigs, Len(IntSigs), NDEBUG)
          IN /\ NumRegisteredSignals' = R.Num
             /\ RegisteredSignalInfo' = R.Saved
             /\ Handlers' = R.Handlers
             /\ Stray' = R.Stray
             /\ Aborted' = R.Aborted
             /\ Threads' = IF R.Aborted THEN Threads
                           ELSE [Threads EXCEPT ![t].at = "KillSigs"]
    /\ UNCHANGED <<pc, InterruptFunction, FilesToRemove, CallBacksToRun,
                   signalFrame>>

\* Thread t runs the second loop of RegisterHandlers() and returns.
RegisterKillSigs(t) ==
    /\ pc = "signals"
    /\ ~Aborted
    /\ Threads[t].at = "KillSigs"
    /\ \E NDEBUG \in BOOLEAN :
          LET R == RegisterEach(Registered, KillSigs, Len(KillSigs), NDEBUG)
          IN /\ NumRegisteredSignals' = R.Num
             /\ RegisteredSignalInfo' = R.Saved
             /\ Handlers' = R.Handlers
             /\ Stray' = R.Stray
             /\ Aborted' = R.Aborted
             /\ Threads' = IF R.Aborted THEN Threads
                           ELSE [Threads EXCEPT ![t].at = "idle"]
    /\ UNCHANGED <<pc, InterruptFunction, FilesToRemove, CallBacksToRun,
                   signalFrame>>

\* The handlers after the first n elements of RegisteredSignalInfo have
\* been restored in order, starting from H.
RECURSIVE Restore(_, _, _)
Restore(H, Saved, n) ==
    IF n = 0 THEN H
    ELSE [Restore(H, Saved, n - 1) EXCEPT ![Saved[n].SigNo] = Saved[n].SA]

\* The handlers UnregisterHandlers() leaves.  Elements behind the array
\* are not kept by the model; restoring stops at the end of the array.
UnregisterHandlers(H) ==
    Restore(H, RegisteredSignalInfo,
            IF NumRegisteredSignals < RegisteredSignalInfoLength
            THEN NumRegisteredSignals ELSE RegisteredSignalInfoLength)

\* Signal Sig is delivered while SignalHandler is installed for it.  The
\* handler was installed with SA_RESETHAND, so the delivery resets it.  An
\* interrupt signal with an interrupt function returns to the program;
\* without one the signal is raised again, and a kill signal returns to
\* the fault or, when it was sent to the process, to the program.
SignalHandler(Sig) ==
    /\ pc = "signals"
    /\ ~Aborted
    /\ Handlers[Sig] = "SignalHandler"
    /\ Handlers' = UnregisterHandlers([Handlers EXCEPT ![Sig] = "SIG_DFL"])
    /\ NumRegisteredSignals' = 0
    /\ IF Sig \in {IntSigs[i] : i \in DOMAIN IntSigs}
       THEN IF InterruptFunction # "nullptr"
            THEN /\ InterruptFunction' = "nullptr"
                 /\ pc' = pc
            ELSE /\ pc' = "raised"
                 /\ UNCHANGED InterruptFunction
       ELSE /\ pc' \in {pc, "raised"}
            /\ UNCHANGED InterruptFunction
    /\ UNCHANGED <<Aborted, Stray, Threads, FilesToRemove, CallBacksToRun,
                   RegisteredSignalInfo, signalFrame>>

\* The signals the environment sends: one that asks for termination and
\* one that reports a fault.
DeliveredSignals == {"SIGINT", "SIGSEGV"}

NextSignals ==
    \/ \E t \in ThreadIds : SetInterruptFunction(t)
    \/ \E t \in ThreadIds : RemoveFileOnSignal(t)
    \/ \E t \in ThreadIds : AddSignalHandler(t)
    \/ \E t \in ThreadIds : RegisterHandlers(t)
    \/ \E t \in ThreadIds : RegisterIntSigs(t)
    \/ \E t \in ThreadIds : RegisterKillSigs(t)
    \/ \E Sig \in DeliveredSignals : SignalHandler(Sig)

SpecSignals == InitSignals /\ [][NextSignals]_vars

\* No thread is inside RegisterHandlers().
Quiet == \A t \in ThreadIds : Threads[t].at = "idle"

\* C22: the handlers are registered at most once at a time: the number of
\* registered signals never exceeds the length of RegisteredSignalInfo,
\* the assertion of RegisterHandler holds, and once every call has
\* returned and the handlers are unregistered, every signal has the
\* handler it had before the first registration.
C22_RegisteredOnce ==
    /\ NumRegisteredSignals <= RegisteredSignalInfoLength
    /\ ~Aborted
    /\ (Quiet /\ NumRegisteredSignals = 0) => Handlers = OriginalHandlers

(***************************************************************************)
(* Signal handling on Windows (lib/Support/Windows/Watchdog.inc).  The     *)
(* public operations are called by the program's thread, one after the     *)
(* other; Windows runs the console handler in a thread of its own, which   *)
(* starts by entering the critical section.                                *)
(***************************************************************************)
MaxWindowsCalls == 3

\* CRITICAL_SECTION: a recursive lock with its owner and recursion count.
NoCriticalSection == [Owner |-> "none", Count |-> 0, Initialized |-> FALSE]

InitializeThreading(CS) ==
    IF CS.Initialized THEN CS
    ELSE [Owner |-> "none", Count |-> 0, Initialized |-> TRUE]

\* Thread t can enter: nobody else owns the section.
CanEnter(CS, t) == CS.Owner \in {"none", t}

EnterCriticalSection(CS, t) ==
    [CS EXCEPT !.Owner = t, !.Count = CS.Count + 1]

\* Leaving a section the thread does not own has no defined result.
LeaveCriticalSection(CS, t) ==
    IF CS.Owner = t /\ CS.Count > 0
    THEN [CS EXCEPT !.Owner = IF CS.Count = 1 THEN "none" ELSE t,
                    !.Count = CS.Count - 1]
    ELSE [CS EXCEPT !.Owner = "undefined"]

\* The outcomes of leaving a section that is not owned: the section is as
\* before, or it is left unusable for every thread.
Outcome(W, broken) ==
    IF W.CS.Owner = "undefined"
    THEN [W EXCEPT !.CS.Owner = IF broken THEN "corrupt" ELSE "none"]
    ELSE W

\* The state the Windows operations work on.
Windows ==
    [CS |-> CriticalSection,
     Filter |-> RegisteredUnhandledExceptionFilter,
     Executed |-> CleanupExecuted,
     Files |-> FilesToRemove,
     IF_ |-> InterruptFunction,
     CallBacks |-> CallBacksToRun]

\* RegisterHandler() called by thread t from state W; loaded is the result
\* of load64BitDebugHelp().
RegisterHandlerWindows(W, t, loaded) ==
    IF ~loaded THEN W
    ELSE IF W.Filter
    THEN [W EXCEPT !.CS = EnterCriticalSection(W.CS, t)]
    ELSE [W EXCEPT !.CS = EnterCriticalSection(InitializeThreading(W.CS), t),
                   !.Filter = TRUE]

RemoveFileOnSignalWindows(W, t, loaded) ==
    LET R == RegisterHandlerWindows(W, t, loaded)
    IN IF R.Executed THEN R
       ELSE [R EXCEPT !.Files = Append(IF R.Files = "NULL" THEN <<>>
                                       ELSE R.Files, "Filename"),
                      !.CS = LeaveCriticalSection(R.CS, t)]

\* The list without its last element equal to Filename.
RECURSIVE EraseLast(_, _)
EraseLast(Files, Filename) ==
    IF Files = <<>> THEN <<>>
    ELSE IF Files[Len(Files)] = Filename
    THEN SubSeq(Files, 1, Len(Files) - 1)
    ELSE Append(EraseLast(SubSeq(Files, 1, Len(Files) - 1), Filename),
                Files[Len(Files)])

DontRemoveFileOnSignalWindows(W, t, loaded) ==
    IF W.Files = "NULL" THEN W
    ELSE LET R == RegisterHandlerWindows(W, t, loaded)
         IN [R EXCEPT !.Files = EraseLast(R.Files, "Filename"),
                      !.CS = LeaveCriticalSection(R.CS, t)]

PrintStackTraceOnErrorSignalWindows(W, t, loaded) ==
    LET R == RegisterHandlerWindows(W, t, loaded)
    IN [R EXCEPT !.CS = LeaveCriticalSection(R.CS, t)]

SetInterruptFunctionWindows(W, t, loaded, Fn) ==
    LET R == RegisterHandlerWindows(W, t, loaded)
    IN [R EXCEPT !.IF_ = Fn, !.CS = LeaveCriticalSection(R.CS, t)]

AddSignalHandlerWindows(W, t, loaded) ==
    LET R == RegisterHandlerWindows(
                 [W EXCEPT !.CallBacks = Append(W.CallBacks, "FnPtr")],
                 t, loaded)
    IN [R EXCEPT !.CS = LeaveCriticalSection(R.CS, t)]

\* Cleanup() run by thread t, which can enter the section.
Cleanup(W, t) ==
    IF W.Executed THEN W
    ELSE [W EXCEPT !.Executed = TRUE,
                   !.Files = IF W.Files = "NULL" THEN "NULL" ELSE <<>>,
                   !.CS = LeaveCriticalSection(
                              EnterCriticalSection(W.CS, t), t)]

RunInterruptHandlersWindows(W, t) ==
    Cleanup([W EXCEPT !.CS = InitializeThreading(W.CS)], t)

\* The public operations that call RegisterHandler(), and the state each
\* leaves when the program's thread calls it.
Operations ==
    {"RemoveFileOnSignal", "DontRemoveFileOnSignal", "SetInterruptFunction",
     "AddSignalHandler", "PrintStackTraceOnErrorSignal"}

After(Op, loaded, Fn) ==
    CASE Op = "RemoveFileOnSignal" ->
             RemoveFileOnSignalWindows(Windows, "main", loaded)
      [] Op = "DontRemoveFileOnSignal" ->
             DontRemoveFileOnSignalWindows(Windows, "main", loaded)
      [] Op = "SetInterruptFunction" ->
             SetInterruptFunctionWindows(Windows, "main", loaded, Fn)
      [] Op = "AddSignalHandler" ->
             AddSignalHandlerWindows(Windows, "main", loaded)
      [] Op = "PrintStackTraceOnErrorSignal" ->
             PrintStackTraceOnErrorSignalWindows(Windows, "main", loaded)

InitWindows ==
    /\ pc = "windows"
    /\ NoApply /\ NoFixups /\ NoHook /\ NoTable
    /\ Threads = [t \in {"main", "console"} |-> IdleThread]
    /\ InterruptFunction = "nullptr"
    /\ FilesToRemove = "NULL"
    /\ CallBacksToRun = <<>>
    /\ NumRegisteredSignals = 0
    /\ RegisteredSignalInfo = <<>>
    /\ Handlers = <<>>
    /\ CriticalSection = NoCriticalSection
    /\ RegisteredUnhandledExceptionFilter = FALSE
    /\ CleanupExecuted = FALSE

\* What the Windows model leaves alone.
windowsFrame ==
    <<Backend, Fixup, Data, Before, Adjusted, Errors, KsError, Stray,
      fixupsVars, hookVars, tableVars, NumRegisteredSignals,
      RegisteredSignalInfo, Handlers>>

\* The globals become those of state W.
Becomes(W) ==
    /\ CriticalSection' = W.CS
    /\ RegisteredUnhandledExceptionFilter' = W.Filter
    /\ CleanupExecuted' = W.Executed
    /\ FilesToRemove' = W.Files
    /\ InterruptFunction' = W.IF_
    /\ CallBacksToRun' = W.CallBacks

\* The program is running and its thread can make a call.
Running ==
    /\ pc = "windows"
    /\ ~Aborted
    /\ CriticalSection.Owner # "corrupt"
    /\ Threads["main"].Calls < MaxWindowsCalls

\* The program's thread calls one of the public operations.  When the
\* debug help library cannot be loaded, RegisterHandler() asserts, and a
\* build without assertions returns without entering the section.
CallOperation ==
    /\ Running
    /\ CanEnter(CriticalSection, "main")
    /\ \E Op \in Operations, loaded \in BOOLEAN, Fn \in {"nullptr", "IF"},
          NDEBUG \in BOOLEAN, broken \in BOOLEAN :
          LET skipped == Op = "DontRemoveFileOnSignal"
                             /\ FilesToRemove = "NULL"
          IN IF ~loaded /\ ~NDEBUG /\ ~skipped
             THEN /\ Aborted' = TRUE
                  /\ Becomes(IF Op = "AddSignalHandler"
                             THEN [Windows EXCEPT !.CallBacks =
                                       Append(CallBacksToRun, "FnPtr")]
                             ELSE Windows)
             ELSE /\ Aborted' = Aborted
                  /\ Becomes(Outcome(After(Op, loaded, Fn), broken))
    /\ Threads' = [Threads EXCEPT !["main"].Calls = @ + 1]
    /\ UNCHANGED <<pc, windowsFrame>>

\* The program's thread calls RunInterruptHandlers().
RunInterruptHandlers ==
    /\ Running
    /\ CanEnter(CriticalSection, "main")
    /\ Becomes(RunInterruptHandlersWindows(Windows, "main"))
    /\ Threads' = [Threads EXCEPT !["main"].Calls = @ + 1]
    /\ UNCHANGED <<pc, Aborted, windowsFrame>>

\* A console event: Windows starts a thread that runs the console handler
\* registered by RegisterHandler().
ConsoleCtrlEvent ==
    /\ pc = "windows"
    /\ ~Aborted
    /\ RegisteredUnhandledExceptionFilter
    /\ Threads["console"].at = "idle"
    /\ Threads["console"].Calls < MaxWindowsCalls
    /\ Threads' = [Threads EXCEPT !["console"] =
                       [at |-> "EnterCriticalSection", Calls |-> @.Calls + 1]]
    /\ UNCHANGED <<pc, Aborted, CriticalSection,
                   RegisteredUnhandledExceptionFilter, CleanupExecuted,
                   FilesToRemove, InterruptFunction, CallBacksToRun,
                   windowsFrame>>

\* The console handler, once its thread can enter the section: it cleans
\* up and runs the interrupt function, or lets the process die.
LLVMConsoleCtrlHandler ==
    /\ pc = "windows"
    /\ ~Aborted
    /\ Threads["console"].at = "EnterCriticalSection"
    /\ CanEnter(CriticalSection, "console")
    /\ LET E == [Windows EXCEPT
                     !.CS = EnterCriticalSection(CriticalSection, "console")]
           C == Cleanup(E, "console")
       IN /\ Becomes([C EXCEPT !.IF_ = "nullptr",
                               !.CS = LeaveCriticalSection(C.CS, "console")])
          /\ pc' = IF InterruptFunction # "nullptr" THEN pc ELSE "exited"
    /\ Threads' = [Threads EXCEPT !["console"].at = "idle"]
    /\ UNCHANGED <<Aborted, windowsFrame>>

NextWindows ==
    \/ CallOperation
    \/ RunInterruptHandlers
    \/ ConsoleCtrlEvent
    \/ LLVMConsoleCtrlHandler

SpecWindows == InitWindows /\ [][NextWindows]_vars

\* C23: whenever the program's thread has returned from a public operation
\* or from the clean-up, it does not hold the critical section, and the
\* thread of the console handler can enter it.
C23_CriticalSectionLeft ==
    (pc = "windows" /\ ~Aborted)
        => /\ CriticalSection.Owner # "main"
           /\ CanEnter(CriticalSection, "console")

(***************************************************************************)
(* Two fixups applied to one fragment by the same backend, in either       *)
(* order.                                                                  *)
(***************************************************************************)
\* The offsets and values of the two fixups: four-byte fields two bytes
\* apart overlap and two-byte fields do not; the last byte of the buffer
\* holds a field of one byte only.
OrderOffsets == {U32(0, 0), U32(0, 2), U32(0, BufLen - 1)}

OrderValues == {{}, {2, 4, 13}, Not64({0})}

InitOrder ==
    /\ pc = "encoded"
    /\ Backend = "none"
    /\ Fixup = NoFixup
    /\ Data \in InitBuffers
    /\ Before = Data
    /\ Adjusted = <<>>
    /\ Errors = <<>>
    /\ KsError = "KS_ERR_OK"
    /\ Aborted = FALSE
    /\ Stray = {}
    /\ Initial = Data
    /\ Contrib = ZeroBuffer
    /\ NumApplied = 0
    /\ NoHook /\ NoTable
    /\ NoOS

\* A RISC-V assembly applies the first or the second fixup of the fragment.
RISCVApplyInOrder ==
    /\ pc \in {"encoded", "applied"}
    /\ Backend \in {"none", "RISCV"}
    /\ ~Aborted
    /\ NumApplied < 2
    /\ \E Kind \in RISCVKinds, Offset \in OrderOffsets, Value \in OrderValues,
          NDEBUG \in BOOLEAN, trap \in BOOLEAN :
           applyFixupRISCV(Kind, Offset, Value, NDEBUG, trap)
    /\ NumApplied' = NumApplied + 1
    /\ UNCHANGED <<Initial, Contrib, hookVars, tableVars, osVars>>

\* A SystemZ assembly applies the first or the second fixup of the fragment.
SystemZApplyInOrder ==
    /\ pc \in {"encoded", "applied"}
    /\ Backend \in {"none", "SystemZ"}
    /\ ~Aborted
    /\ NumApplied < 2
    /\ \E Kind \in SystemZKinds, Offset \in OrderOffsets,
          Value \in OrderValues, trap \in BOOLEAN :
           applyFixupSystemZ(Kind, Offset, Value, trap)
    /\ NumApplied' = NumApplied + 1
    /\ UNCHANGED <<Initial, Contrib, hookVars, tableVars, osVars>>

NextOrder == RISCVApplyInOrder \/ SystemZApplyInOrder

SpecOrder == InitOrder /\ [][NextOrder]_vars

\* Fixup F lies inside the buffer: the bytes of its field, and every byte
\* backend B accesses for it, are bytes of the buffer.
InBounds(B, F) ==
    /\ FitsBuffer(F.Offset, FixupBytes(B, F.Kind))
    /\ B = "RISCV"
        => FitsBuffer(F.Offset,
                      (RISCVGetFixupKindInfo(F.Kind).TargetSize + 7) \div 8)

\* The buffer backend B makes of buffer D by applying the in-bounds fixup F.
Effect(B, F, D) ==
    IF B = "RISCV"
    THEN (IF F.Value = {} THEN D
          ELSE RISCVLoop(D, F.Offset,
                         Shl(adjustFixupValue(F.Kind, F.Value),
                             RISCVGetFixupKindInfo(F.Kind).TargetOffset),
                         getSize(F.Kind), FALSE).Data)
    ELSE SystemZLoop(D, F.Offset, extractBitsForFixup(F.Kind, F.Value),
                     (SystemZGetFixupKindInfo(F.Kind).TargetSize + 7) \div 8,
                     FALSE).Data

\* C24: when a backend has applied an in-bounds fixup to a buffer and then
\* applies a second in-bounds fixup, the buffer it leaves is the one it
\* makes of the same start by applying the second fixup first and the
\* first one after it.
C24_OrderIndependent ==
    [][(/\ pc = "applied"
        /\ NumApplied = 1
        /\ NumApplied' = 2
        /\ InBounds(Backend, Fixup)
        /\ InBounds(Backend', Fixup'))
       => Data' = Effect(Backend, Fixup, Effect(Backend, Fixup', Before))]_vars

\* A data word has been merged into bytes that an earlier fixup, applied
\* two bytes below it, had already written to.
C24_Witness ==
    /\ pc = "applied"
    /\ ~Aborted
    /\ NumApplied = 2
    /\ Backend = "RISCV"
    /\ Initial = ZeroBuffer
    /\ Fixup = [Kind |-> "FK_Data_4", Offset |-> U32(0, 2),
                Value |-> {2, 4, 13}]
    /\ Before[2] # {}
    /\ Data[2] # Before[2]
    /\ Data[3] # Before[3]

(***************************************************************************)
(* More properties of the RISC-V applyFixup, checked under Spec.           *)
(***************************************************************************)
\* The bits of the instruction word that hold the immediate of a kind.
ImmediateBits(Kind) ==
    CASE Kind \in {"fixup_riscv_jal", "fixup_riscv_hi20",
                   "fixup_riscv_pcrel_hi20"} -> 12 .. 31
      [] Kind = "fixup_riscv_lo12_i" -> 20 .. 31
      [] Kind \in {"fixup_riscv_branch", "fixup_riscv_lo12_s"} ->
             (25 .. 31) \cup (7 .. 11)
      [] Kind = "fixup_riscv_rvc_jump" -> 2 .. 12
      [] Kind = "fixup_riscv_rvc_branch" -> (10 .. 12) \cup (2 .. 6)

\* The bits in which two words differ.
Differing(v, w) == (v \ w) \cup (w \ v)

\* C25: for every RISC-V target kind and every value, applyFixup on a
\* fixup that lies inside the buffer changes no bit of the instruction
\* word outside the kind's immediate field, and no byte outside the word.
C25_OnlyImmediateBits ==
    /\ Applied("RISCV")
    /\ Fixup.Kind \in RISCVTargetKinds
    /\ FitsBuffer(Fixup.Offset, FixupBytes("RISCV", Fixup.Kind))
    => LET n == FixupBytes("RISCV", Fixup.Kind)
           o == Fixup.Offset.lo
       IN  /\ ~Aborted
           /\ Differing(ReadLE(Data, o, n), ReadLE(Before, o, n))
                 \subseteq ImmediateBits(Fixup.Kind)
           /\ \A j \in 0 .. (BufLen - 1) :
                 (j < o \/ j >= o + n) => Data[j] = Before[j]

\* A store offset far outside the 12-bit range has filled both halves of
\* the immediate field of a zeroed instruction word.
C25_Witness ==
    /\ Applied("RISCV")
    /\ Fixup.Kind = "fixup_riscv_lo12_s"
    /\ Fixup.Value = Not64({32})
    /\ Fixup.Offset = U32(0, 4)
    /\ Before = ZeroBuffer
    /\ ReadLE(Data, 4, 4) = ImmediateBits("fixup_riscv_lo12_s")

\* C26: whenever a RISC-V fixup satisfies offset + ceil(TargetSize / 8) <=
\* buffer size, applyFixup accesses only bytes of the buffer: no access
\* traps and nothing outside the buffer is written.
C26_InvariantKeepsInBuffer ==
    /\ Applied("RISCV")
    /\ FitsBuffer(Fixup.Offset,
                  (RISCVGetFixupKindInfo(Fixup.Kind).TargetSize + 7) \div 8)
    => /\ ~Aborted
       /\ Stray = {}

\* The width in bytes of a generic data kind.
DataWidth(Kind) ==
    CASE Kind = "FK_Data_1" -> 1
      [] Kind = "FK_Data_2" -> 2
      [] Kind = "FK_Data_4" -> 4
      [] Kind = "FK_Data_8" -> 8

\* C27: for FK_Data_1, FK_Data_2, FK_Data_4 and FK_Data_8, a value of the
\* kind's width and a field that lies inside the buffer, the RISC-V
\* applyFixup ORs byte i of the value into the byte at offset + i for each
\* i below the width, and accesses no byte beyond the width.
C27_DataKindsExactWidth ==
    /\ Applied("RISCV")
    /\ Fixup.Kind \in GenericKinds
    /\ FitsBuffer(Fixup.Offset, DataWidth(Fixup.Kind))
    /\ Fixup.Value \subseteq 0 .. (8 * DataWidth(Fixup.Kind) - 1)
    => LET n == DataWidth(Fixup.Kind)
           o == Fixup.Offset.lo
       IN  /\ ~Aborted
           /\ Stray = {}
           /\ \A j \in 0 .. (BufLen - 1) :
                 Data[j] = IF o <= j /\ j < o + n
                           THEN Before[j] \cup ByteNo(Fixup.Value, j - o)
                           ELSE Before[j]

(***************************************************************************)
(* adjustFixupValue called for two fixups of one kind, one after the       *)
(* other.                                                                  *)
(***************************************************************************)
\* The highest bit in which the offsets differ from 0 and from -2.
MaxOffsetBit == 20

\* The kinds that pack a branch or jump offset.
OffsetKinds ==
    {"fixup_riscv_jal", "fixup_riscv_branch", "fixup_riscv_rvc_jump",
     "fixup_riscv_rvc_branch"}

\* Even offsets: 0, 2^p, -2^p and -2 - 2^p.
OffsetValues ==
    {{}} \cup {{p} : p \in 1 .. MaxOffsetBit}
         \cup {p .. 63 : p \in 1 .. MaxOffsetBit}
         \cup {Not64({0, p}) : p \in 1 .. MaxOffsetBit}

InitInjective ==
    /\ pc = "call"
    /\ Backend = "RISCV"
    /\ Fixup = NoFixup
    /\ Data = ZeroBuffer
    /\ Before = ZeroBuffer
    /\ Adjusted = <<>>
    /\ Errors = <<>>
    /\ KsError = "KS_ERR_OK"
    /\ Aborted = FALSE
    /\ Stray = {}
    /\ NoFixups /\ NoHook /\ NoTable
    /\ NoOS

\* adjustFixupValue for the first fixup, of any of the kinds.
AdjustFirst ==
    /\ pc = "call"
    /\ pc' = "first"
    /\ \E Kind \in OffsetKinds, Value \in OffsetValues :
          /\ Fixup' = [Kind |-> Kind, Offset |-> U32(0, 0), Value |-> Value]
          /\ Adjusted' = <<adjustFixupValue(Kind, Value)>>
          /\ Errors' = adjustFixupErrors(Kind, Value)
    /\ UNCHANGED <<Backend, Data, Before, KsError, Aborted, Stray, fixupsVars,
                   hookVars, tableVars, osVars>>

\* adjustFixupValue for the second fixup, of the kind of the first.
AdjustSecond ==
    /\ pc = "first"
    /\ pc' = "second"
    /\ \E Value \in OffsetValues :
          /\ Fixup' = [Fixup EXCEPT !.Value = Value]
          /\ Adjusted' = Append(Adjusted, adjustFixupValue(Fixup.Kind, Value))
          /\ Errors' = Errors \o adjustFixupErrors(Fixup.Kind, Value)
    /\ UNCHANGED <<Backend, Data, Before, KsError, Aborted, Stray, fixupsVars,
                   hookVars, tableVars, osVars>>

NextInjective == AdjustFirst \/ AdjustSecond

SpecInjective == InitInjective /\ [][NextInjective]_vars

\* C28: for jal, branch, rvc_jump and rvc_branch, when the adjust step has
\* packed an even offset within the kind's signed range and then packs a
\* different one, the second packed value differs from the first.
C28_AdjustInjective ==
    [][(/\ pc = "first"
        /\ pc' = "second"
        /\ IsEven(Fixup.Value) /\ isInt(SignedWidth(Fixup.Kind), Fixup.Value)
        /\ IsEven(Fixup'.Value)
        /\ isInt(SignedWidth(Fixup.Kind), Fixup'.Value)
        /\ Fixup'.Value # Fixup.Value)
       => Adjusted'[2] # Adjusted'[1]]_vars

\* Two branch offsets that differ in the sign and in bit 11 only, the two
\* bits the packing moves furthest, have been packed.
C28_Witness ==
    /\ pc = "second"
    /\ Fixup.Kind = "fixup_riscv_branch"
    /\ Fixup.Value = 11 .. 63
    /\ Adjusted[1] = adjustFixupValue("fixup_riscv_branch", {11})
    /\ Adjusted[1] # Adjusted[2]

(***************************************************************************)
(* The table as a function of the set of added sequences, checked under    *)
(* SpecTable.                                                              *)
(***************************************************************************)
\* The table layout() makes of the sequences of A that are not the end of
\* another sequence of A.
TableOf(A) ==
    layout([q \in {x \in A : \A t \in A : EndOf(x, t) => t = x} |-> 0], 0)

\* C29: after add() calls followed by layout(), the table depends on the
\* set of added sequences only, not on the order or the number of the
\* add() calls: the offsets and the number of entries are those of the
\* table made of the set, size() returns that number, and get() of an
\* added sequence returns its offset in that table.
C29_OrderInsensitive ==
    (InOrder /\ LaidOut /\ ~Aborted)
    => /\ Seqs = TableOf(Added).Seqs
       /\ Entries = TableOf(Added).Entries
       /\ Call = "size" => Ret = <<TableOf(Added).Entries>>
       /\ (Call = "get" /\ Arg \in Added)
             => Ret = get(TableOf(Added).Seqs, Arg)

\* size() after <<1>> and <<2, 1>> were added, in either order: <<1>> was
\* replaced or was skipped, and the table has the three entries of <<2, 1>>.
C29_Witness ==
    /\ Call = "size"
    /\ InOrder
    /\ ~Aborted
    /\ Added = {<<1>>, <<2, 1>>}
    /\ Ret = <<3>>

====
